---- MODULE Spec2Model ----
(***************************************************************************)
(* State-machine model of the MetEd lesson template generator: the wizard  *)
(* state held by LessonBuilder (lesson configuration, page collection,     *)
(* asset list), the content-pages forms that edit the page collection, the *)
(* assets manager, and the LatestCorePhpGenerator export.                  *)
(*                                                                         *)
(* Strings that the code only stores and compares are TLA+ strings.  File  *)
(* names, on which the code does character arithmetic (lastIndexOf,        *)
(* substring, trim), are sequences of one-character strings.  A page-path  *)
(* identifier "a-b-c" is held as the sequence of its '-'-separated parts.  *)
(* The children array of a page holds page objects in the code; only their *)
(* id is ever read, so the model holds the sequence of their ids.          *)
(***************************************************************************)
EXTENDS Integers, Sequences, FiniteSets, TLC

VARIABLES
    config,             \* LessonBuilder: lessonConfig
    assets,             \* LessonBuilder: assets
    selectedPage,       \* ContentPagesForm (hierarchical): selectedPage
    editingPage,        \* ContentPagesForm: editingPage
    jsonImportError,    \* ContentPagesForm (hierarchical): jsonImportError
    jsonImportSuccess,  \* ContentPagesForm (hierarchical): jsonImportSuccess
    reading,            \* documents handed to a FileReader, onload pending
    successTimers,      \* pending setTimeout(() => setJsonImportSuccess(false))
    nextUuid,           \* number of the next uuidv4() result
    imports,            \* files chosen for import so far
    renameDialog,       \* AssetsManager: renameDialog
    currentYear,        \* new Date().getFullYear()
    templateVariables,  \* last result of getTemplateVariables()
    gen,                \* the export in flight (LatestCorePhpGenerator)
    isGenerating,       \* PreviewAndExport: isGenerating
    downloads,          \* saveAs(blob, filename) calls, in order
    alerts,             \* alert(message) calls, in order
    exports,            \* exports started so far
    served,             \* the template directory the server serves
    processed,          \* last call of processTemplateVariables(content)
    activeStep,         \* LessonBuilder: activeStep
    errors,             \* LessonBuilder: errors
    contentForm,        \* the ContentPagesForm module LessonBuilder imports
    units,              \* ContentPagesForm (unit-based): units
    nextUnit,           \* Date.now() of the next unit added
    onChangeRef,        \* identity of the inline onChange of the latest render
    effectDeps,         \* [units, onChange] the sync effect last ran with
    localPage,          \* PageEditor: localPage
    last                \* the handler that ran last, with its arguments

vars == <<config, assets, selectedPage, editingPage, jsonImportError,
          jsonImportSuccess, reading, successTimers, nextUuid, imports, renameDialog,
          currentYear, templateVariables, gen, isGenerating, downloads, alerts,
          exports, served, processed, activeStep, errors, contentForm, units,
          nextUnit, onChangeRef, effectDeps, localPage, last>>

(***************************************************************************)
(* Bounds of the model.                                                    *)
(***************************************************************************)
MaxUuid == 4            \* highest uuid number an add-page action may draw
MaxPages == 3           \* pages a form adds up to (imports may exceed it)
MaxOuter == 2           \* outer menu length of a generated import document
MaxInner == 2           \* inner menu length of a generated import document
MaxReads == 1           \* FileReader loads in flight
MaxImports == 1         \* files chosen for import in one behaviour
MaxSkips == 1           \* fetches of one export that do not succeed
MaxExports == 1         \* exports started in one behaviour

(***************************************************************************)
(* Values.                                                                 *)
(***************************************************************************)
Undefined == "undefined"
Null == "null"

uuidv4(n) == "uuid-" \o ToString(n)

\* Array.prototype.findIndex, 1-based; 0 when no element matches (-1).
findIndex(pages, id) ==
    IF \E i \in 1..Len(pages) : pages[i].id = id
    THEN CHOOSE i \in 1..Len(pages) :
            /\ pages[i].id = id
            /\ \A j \in 1..(i - 1) : pages[j].id # id
    ELSE 0

\* The ids of a sequence of pages, in order.
idsOf(pages) == [i \in 1..Len(pages) |-> pages[i].id]

\* parts[i] of the result of String.split('-'); undefined past the end
\* prints as "undefined" in a template literal.
partAt(parts, i) == IF i <= Len(parts) THEN parts[i] ELSE "undefined"

(***************************************************************************)
(* Initial configuration (LessonBuilder.tsx: initialConfig).               *)
(***************************************************************************)
initialConfig ==
    [ language            |-> "English",
      lessonTitle         |-> <<>>,
      lessonId            |-> "",
      description         |-> "",
      keywords            |-> "",
      customCopyrightYear |-> Undefined,
      templateType        |-> "latest_core_legacy_standard",
      useBootstrap        |-> TRUE,
      pages               |-> <<>> ]

\* onChange of LessonBuilder: setLessonConfig(prev => ({...prev, ...updates}))
\* for an update of the pages field.
setPages(cfg, pages) == [cfg EXCEPT !.pages = pages]

(***************************************************************************)
(* Hierarchical content-pages form.                                        *)
(***************************************************************************)
levelWord(level) ==
    IF level = 1 THEN "Page" ELSE IF level = 2 THEN "Subpage" ELSE "Sub-subpage"

\* handleAddPage(level, parentId) with newId the uuid drawn for the page.
handleAddPage(pages, level, parentId, newId) ==
    LET pageNumber == Cardinality({ i \in 1..Len(pages) :
                          pages[i].level = level /\ pages[i].parentId = parentId }) + 1
        parentIdx == IF parentId # Undefined THEN findIndex(pages, parentId) ELSE 0
        pageIdentifier ==
            IF level = 1 THEN <<ToString(pageNumber), "0", "0">>
            ELSE IF level = 2 THEN
                <<IF parentIdx # 0 THEN partAt(pages[parentIdx].page, 1) ELSE "1",
                  ToString(pageNumber), "0">>
            ELSE IF level = 3 THEN
                <<IF parentIdx # 0 THEN partAt(pages[parentIdx].page, 1) ELSE "1",
                  IF parentIdx # 0 THEN partAt(pages[parentIdx].page, 2) ELSE "1",
                  ToString(pageNumber)>>
            ELSE <<>>
        newPage == [ id          |-> newId,
                     title       |-> levelWord(level) \o " " \o ToString(pageNumber),
                     content     |-> "<p>Add your content here...</p>",
                     description |-> "",
                     order       |-> Len(pages) + 1,
                     type        |-> "content",
                     level       |-> level,
                     parentId    |-> parentId,
                     children    |-> <<>>,
                     page        |-> pageIdentifier,
                     innerNode   |-> FALSE ]
        updatedPages == Append(pages, newPage)
        parentIndex == IF parentId # Undefined THEN findIndex(updatedPages, parentId) ELSE 0
    IN  IF parentIndex # 0
        THEN [updatedPages EXCEPT ![parentIndex].children = Append(@, newId)]
        ELSE updatedPages

\* handleDeletePage(pageId): the page list it passes to onChange.
handleDeletePage(pages, pageId) ==
    LET idx == findIndex(pages, pageId) IN
    IF idx = 0 THEN pages
    ELSE
        LET pageToDelete == pages[idx]
            keep(page) ==
                /\ page.id # pageId
                /\ page.parentId # pageId
                /\ ~ \E c \in 1..Len(pageToDelete.children) :
                        pageToDelete.children[c] = page.id
            updatedPages == SelectSeq(pages, keep)
            parentIndex == IF pageToDelete.parentId # Undefined
                           THEN findIndex(updatedPages, pageToDelete.parentId)
                           ELSE 0
            notDeleted(childId) == childId # pageId
        IN  IF parentIndex # 0
            THEN [updatedPages EXCEPT
                    ![parentIndex].children = SelectSeq(@, notDeleted)]
            ELSE updatedPages

\* buildTreeStructure / buildPageChildren / renderTreeNode: the pages that
\* are rendered as tree nodes, and so carry edit, delete and add buttons,
\* are the level-1 pages and whatever hangs below them through parentId.
RECURSIVE renderedBelow(_, _, _)
renderedBelow(pages, parents, fuel) ==
    LET kids == { pages[i].id : i \in { j \in 1..Len(pages) :
                                          pages[j].parentId \in parents } }
    IN  IF fuel = 0 \/ kids = {} THEN {}
        ELSE kids \cup renderedBelow(pages, kids, fuel - 1)

renderedNodes(pages) ==
    LET roots == { pages[i].id : i \in { j \in 1..Len(pages) : pages[j].level = 1 } }
    IN  roots \cup renderedBelow(pages, roots, Len(pages))

(***************************************************************************)
(* JSON import.  A document is what JSON.parse makes of the file text:     *)
(* parse = "error" when JSON.parse throws; otherwise menuKind tells        *)
(* whether the top-level menu field is an array, missing, or something     *)
(* else.  An entry of a menu array is an object or null; an absent string  *)
(* field of an entry is "" (absent and empty are both falsy for ||), an    *)
(* absent page field is the empty sequence.                                *)
(***************************************************************************)
entry(title, page, menuKind, menu) ==
    [ kind |-> "object", title |-> title, content |-> "", description |-> "",
      type |-> "", page |-> page, innerNode |-> FALSE,
      menuKind |-> menuKind, menu |-> menu ]

nullEntry ==
    [ kind |-> "null", title |-> "", content |-> "", description |-> "",
      type |-> "", page |-> <<>>, innerNode |-> FALSE,
      menuKind |-> "missing", menu |-> <<>> ]

document(parse, menuKind, menu) ==
    [ parse |-> parse, menuKind |-> menuKind, menu |-> menu ]

\* convertMenuToPages(menu, parentId, level), from entry `index` on, with
\* `next` the number of the next uuid.  threw: reading a field of a null
\* entry raised a TypeError.  The children of a page are everything the
\* recursive call returned for its menu.
\* convertMenuItems with the children converted under the parent's own
\* parentId instead of the new page's id.
RECURSIVE convertMenuItemsLostParent(_, _, _, _, _)
convertMenuItemsLostParent(menu, index, parentId, level, next) ==
    IF index > Len(menu)
    THEN [pages |-> <<>>, next |-> next, threw |-> FALSE]
    ELSE
        LET item == menu[index] IN
        IF item.kind = "null"
        THEN [pages |-> <<>>, next |-> next, threw |-> TRUE]
        ELSE
            LET id == uuidv4(next)
                sub == IF item.menuKind = "array" /\ Len(item.menu) > 0
                       THEN convertMenuItemsLostParent(item.menu, 1, parentId,
                                                       level + 1, next + 1)
                       ELSE [pages |-> <<>>, next |-> next + 1, threw |-> FALSE]
                page == [ id          |-> id,
                          title       |-> IF item.title # "" THEN item.title
                                          ELSE "Page " \o ToString(index),
                          content     |-> IF item.content # "" THEN item.content
                                          ELSE "<p>Add your content here...</p>",
                          description |-> item.description,
                          order       |-> index,
                          type        |-> IF item.type # "" THEN item.type
                                          ELSE "content",
                          level       |-> level,
                          parentId    |-> parentId,
                          children    |-> idsOf(sub.pages),
                          page        |-> IF item.page # <<>> THEN item.page
                                          ELSE <<ToString(index), "0", "0">>,
                          innerNode   |-> item.innerNode ]
                rest == IF sub.threw
                        THEN [pages |-> <<>>, next |-> sub.next, threw |-> TRUE]
                        ELSE convertMenuItemsLostParent(menu, index + 1, parentId,
                                                        level, sub.next)
            IN  [ pages |-> <<page>> \o sub.pages \o rest.pages,
                  next  |-> rest.next,
                  threw |-> rest.threw ]

RECURSIVE convertMenuItems(_, _, _, _, _)
convertMenuItems(menu, index, parentId, level, next) ==
    IF index > Len(menu)
    THEN [pages |-> <<>>, next |-> next, threw |-> FALSE]
    ELSE
        LET item == menu[index] IN
        IF item.kind = "null"
        THEN [pages |-> <<>>, next |-> next, threw |-> TRUE]
        ELSE
            LET id == uuidv4(next)
                sub == IF item.menuKind = "array" /\ Len(item.menu) > 0
                       THEN convertMenuItems(item.menu, 1, id, level + 1, next + 1)
                       ELSE [pages |-> <<>>, next |-> next + 1, threw |-> FALSE]
                page == [ id          |-> id,
                          title       |-> IF item.title # "" THEN item.title
                                          ELSE "Page " \o ToString(index),
                          content     |-> IF item.content # "" THEN item.content
                                          ELSE "<p>Add your content here...</p>",
                          description |-> item.description,
                          order       |-> index,
                          type        |-> IF item.type # "" THEN item.type
                                          ELSE "content",
                          level       |-> level,
                          parentId    |-> parentId,
                          children    |-> idsOf(sub.pages),
                          page        |-> IF item.page # <<>> THEN item.page
                                          ELSE <<ToString(index), "0", "0">>,
                          innerNode   |-> item.innerNode ]
                rest == IF sub.threw
                        THEN [pages |-> <<>>, next |-> sub.next, threw |-> TRUE]
                        ELSE convertMenuItems(menu, index + 1, parentId, level, sub.next)
            IN  [ pages |-> <<page>> \o sub.pages \o rest.pages,
                  next  |-> rest.next,
                  threw |-> rest.threw ]

convertMenuToPages(menu, next) == convertMenuItems(menu, 1, Undefined, 1, next)

\* importOutcome without the Array.isArray test: a document without a menu
\* array replaces the pages by the empty list.
importOutcomeUnchecked(doc, next) ==
    IF doc.parse = "error"
    THEN [ok |-> FALSE, error |-> "Invalid JSON file. Please check the format.",
          pages |-> <<>>, next |-> next]
    ELSE LET conv == convertMenuToPages(doc.menu, next) IN
         IF conv.threw
         THEN [ok |-> FALSE, error |-> "Invalid JSON file. Please check the format.",
               pages |-> <<>>, next |-> conv.next]
         ELSE [ok |-> TRUE, error |-> Null, pages |-> conv.pages, next |-> conv.next]

\* reader.onload of handleJsonImport: the outcome of one loaded document.
\* ok: onChange({pages}) is called with the converted pages.
importOutcome(doc, next) ==
    IF doc.parse = "error"
    THEN [ok |-> FALSE, error |-> "Invalid JSON file. Please check the format.",
          pages |-> <<>>, next |-> next]
    ELSE IF doc.menuKind = "array"
    THEN LET conv == convertMenuToPages(doc.menu, next) IN
         IF conv.threw
         THEN [ok |-> FALSE, error |-> "Invalid JSON file. Please check the format.",
               pages |-> <<>>, next |-> conv.next]
         ELSE [ok |-> TRUE, error |-> Null, pages |-> conv.pages, next |-> conv.next]
    ELSE [ok |-> FALSE, error |-> "Invalid JSON structure. Expected a \"menu\" array.",
          pages |-> <<>>, next |-> next]

(***************************************************************************)
(* The import documents the model draws from.                              *)
(***************************************************************************)
leaf == entry("", <<>>, "missing", <<>>)

innerMenu(k) == [j \in 1..k |-> leaf]

\* The two-level document whose i-th outer entry has lens[i] children.
twoLevel(lens) ==
    document("ok", "array",
             [i \in 1..Len(lens) |->
                 entry("", <<>>, IF lens[i] = 0 THEN "missing" ELSE "array",
                       innerMenu(lens[i]))])

\* Every two-level document with 1..MaxOuter outer entries, each with
\* 0..MaxInner children.
TwoLevelDocs ==
    UNION { { twoLevel(lens) : lens \in [1..n -> 0..MaxInner] } : n \in 1..MaxOuter }

\* A document whose entries carry their own title and page fields.
titledDoc ==
    document("ok", "array",
             << entry("Intro", <<"1", "0", "0">>, "array",
                      << entry("Basics", <<"1", "1", "0">>, "missing", <<>>) >>) >>)

chain(depth) ==
    LET l4 == entry("", <<>>, "missing", <<>>)
        l3 == entry("", <<>>, IF depth >= 4 THEN "array" ELSE "missing",
                    IF depth >= 4 THEN <<l4>> ELSE <<>>)
        l2 == entry("", <<>>, "array", <<l3>>)
        l1 == entry("", <<"intro">>, "array", <<l2>>)
    IN  document("ok", "array", <<l1>>)

MalformedDocs ==
    { document("error", "missing", <<>>),      \* not JSON
      document("ok", "missing", <<>>),         \* {} : no menu field
      document("ok", "other", <<>>),           \* {"menu": "x"}
      document("ok", "array", <<nullEntry>>) } \* {"menu": [null]}

ImportDocs ==
    TwoLevelDocs \cup MalformedDocs
        \cup { document("ok", "array", <<>>), titledDoc, chain(3), chain(4) }

(***************************************************************************)
(* Initial state: LessonBuilder is mounted, nothing is in flight.          *)
(***************************************************************************)
\* useState<Unit[]>([...]) of the unit-based form: one default unit.
initialUnits ==
    << [ id          |-> "unit-default",
         title       |-> "Unit Title",
         description |-> "Default unit - edit or add more units as needed" ] >>

\* PageEditor is not rendered.
noEditor == [mounted |-> FALSE]

\* The result of Array.prototype.find when no page matches.
noPage == [found |-> FALSE]

\* The sync effect of the unit-based form has not run in this mount.
noDeps == [ran |-> FALSE]

\* A null asset reference of the rename dialog.
nullAsset == [id |-> Null]

noRenameDialog == [open |-> FALSE, asset |-> nullAsset, newName |-> <<>>]

\* templateVariables before any call of getTemplateVariables.
noVariables == [resolved |-> FALSE]

idle == [pc |-> "idle"]

\* processed before any call of processTemplateVariables.
noOutput == [called |-> FALSE]

\* The template directories considered: one whose template files hold
\* variable tokens only, and one whose index.htm also holds a language block.
TemplateSites == { "plain", "localized" }

Years == {2025, 2026}

Mounted ==
    /\ config = initialConfig
    /\ assets = <<>>
    /\ selectedPage = Null
    /\ editingPage = Null
    /\ jsonImportError = Null
    /\ jsonImportSuccess = FALSE
    /\ reading = <<>>
    /\ successTimers = 0
    /\ nextUuid = 1
    /\ imports = 0
    /\ renameDialog = noRenameDialog
    /\ templateVariables = noVariables
    /\ gen = idle
    /\ isGenerating = FALSE
    /\ downloads = <<>>
    /\ alerts = <<>>
    /\ exports = 0
    /\ processed = noOutput
    /\ activeStep = 0
    /\ errors = <<>>
    /\ units = initialUnits
    /\ nextUnit = 1
    /\ onChangeRef = 0
    /\ effectDeps = noDeps
    /\ localPage = noEditor
    /\ last = [op |-> "mount"]

Init ==
    /\ Mounted
    /\ contentForm = "hierarchical"
    /\ currentYear = 2026
    /\ served = "plain"

formVars == <<selectedPage, editingPage, jsonImportError, jsonImportSuccess,
              reading, successTimers>>
assetVars == <<assets, renameDialog>>
exportVars == <<currentYear, templateVariables, gen, isGenerating, downloads,
                alerts, exports, served, processed>>
countVars == <<nextUuid, imports>>
stepVars == <<activeStep, errors, contentForm, units, nextUnit, onChangeRef,
              effectDeps>>
wizardVars == <<stepVars, localPage>>

(***************************************************************************)
(* The editor panel of the hierarchical form.                              *)
(***************************************************************************)
\* selectedPage && editingPage === selectedPage: PageEditor is rendered.
editorOpen(selected, editing) == selected # Null /\ editing = selected

\* config.pages.find(p => p.id === selectedPage)!
findPage(pages, id) ==
    IF findIndex(pages, id) # 0 THEN pages[findIndex(pages, id)] ELSE noPage

\* The state of PageEditor after a render with the given selection: the
\* element has no key, so an editor that stays rendered keeps its localPage;
\* one that is newly rendered starts from useState(page).
pageEditor(selected, editing, pages, local) ==
    IF ~ editorOpen(selected, editing) THEN noEditor
    ELSE IF local # noEditor THEN local
    ELSE findPage(pages, selected)

\* PageViewer or a new PageEditor rendered for a page that is not in
\* config.pages reads a property of undefined: the render throws.
renderThrows ==
    /\ selectedPage # Null
    /\ findIndex(config.pages, selectedPage) = 0
    /\ (editorOpen(selectedPage, editingPage) => localPage = noPage)

(***************************************************************************)
(* Actions of the hierarchical content-pages form.                         *)
(***************************************************************************)
\* "Add Top Level Page": handleAddPage(1).
AddTopLevelPage ==
    /\ nextUuid <= MaxUuid
    /\ Len(config.pages) < MaxPages
    /\ config' = setPages(config,
                    handleAddPage(config.pages, 1, Undefined, uuidv4(nextUuid)))
    /\ nextUuid' = nextUuid + 1
    /\ UNCHANGED wizardVars
    /\ last' = [op |-> "addPage", level |-> 1, parentId |-> Undefined]
    /\ UNCHANGED <<formVars, imports, assetVars, exportVars>>

\* The add button of a rendered tree node: handleAddPage(page.level + 1, page.id).
AddSubPage ==
    \E i \in 1..Len(config.pages) :
        LET page == config.pages[i] IN
        /\ page.id \in renderedNodes(config.pages)
        /\ page.level < 3
        /\ nextUuid <= MaxUuid
        /\ Len(config.pages) < MaxPages
        /\ config' = setPages(config,
                        handleAddPage(config.pages, page.level + 1, page.id,
                                      uuidv4(nextUuid)))
        /\ nextUuid' = nextUuid + 1
        /\ UNCHANGED wizardVars
        /\ last' = [op |-> "addPage", level |-> page.level + 1, parentId |-> page.id]
        /\ UNCHANGED <<formVars, imports, assetVars, exportVars>>

\* The delete button of a rendered tree node: handleDeletePage(page.id).
DeletePage ==
    \E i \in 1..Len(config.pages) :
        LET pageId == config.pages[i].id IN
        /\ pageId \in renderedNodes(config.pages)
        /\ config' = setPages(config, handleDeletePage(config.pages, pageId))
        /\ selectedPage' = IF selectedPage = pageId THEN Null ELSE selectedPage
        /\ editingPage' = IF editingPage = pageId THEN Null ELSE editingPage
        /\ localPage' = pageEditor(selectedPage', editingPage', config'.pages, localPage)
        /\ UNCHANGED stepVars
        /\ last' = [op |-> "deletePage", pageId |-> pageId]
        /\ UNCHANGED <<jsonImportError, jsonImportSuccess, reading, successTimers,
                       countVars, assetVars, exportVars>>

\* Click on a rendered tree node: setSelectedPage(page.id).
SelectPage ==
    \E i \in 1..Len(config.pages) :
        LET pageId == config.pages[i].id IN
        /\ pageId \in renderedNodes(config.pages)
        /\ selectedPage # pageId
        /\ selectedPage' = pageId
        /\ localPage' = pageEditor(pageId, editingPage, config.pages, localPage)
        /\ UNCHANGED stepVars
        /\ last' = [op |-> "selectPage", pageId |-> pageId]
        /\ UNCHANGED <<config, editingPage, jsonImportError, jsonImportSuccess,
                       reading, successTimers, countVars, assetVars, exportVars>>

\* handleJsonImport: a file was chosen and handed to a FileReader.
ImportStart ==
    \E doc \in ImportDocs :
        /\ Len(reading) < MaxReads
        /\ imports < MaxImports
        /\ imports' = imports + 1
        /\ reading' = Append(reading, doc)
        /\ UNCHANGED wizardVars
        /\ last' = [op |-> "importStart"]
        /\ UNCHANGED <<config, selectedPage, editingPage, jsonImportError,
                       jsonImportSuccess, successTimers, nextUuid, assetVars,
                       exportVars>>

\* reader.onload: the text of one of the files being read has arrived.
ImportLoad ==
    \E r \in 1..Len(reading) :
        LET doc == reading[r]
            out == importOutcome(doc, nextUuid)
        IN  /\ reading' = SubSeq(reading, 1, r - 1) \o SubSeq(reading, r + 1, Len(reading))
            /\ nextUuid' = out.next
            /\ IF out.ok
               THEN /\ config' = setPages(config, out.pages)
                    /\ jsonImportSuccess' = TRUE
                    /\ jsonImportError' = Null
                    /\ successTimers' = successTimers + 1
               ELSE /\ jsonImportError' = out.error
                    /\ UNCHANGED <<config, jsonImportSuccess, successTimers>>
            /\ UNCHANGED wizardVars
            /\ last' = [op |-> "importLoad", doc |-> doc, ok |-> out.ok]
            /\ UNCHANGED <<selectedPage, editingPage, imports, assetVars, exportVars>>

\* The 3-second timer of a successful import: setJsonImportSuccess(false).
ImportSuccessTimeout ==
    /\ successTimers > 0
    /\ successTimers' = successTimers - 1
    /\ jsonImportSuccess' = FALSE
    /\ UNCHANGED wizardVars
    /\ last' = [op |-> "importSuccessTimeout"]
    /\ UNCHANGED <<config, selectedPage, editingPage, jsonImportError, reading,
                   countVars, assetVars, exportVars>>

Next ==
    \/ AddTopLevelPage
    \/ AddSubPage
    \/ DeletePage
    \/ SelectPage
    \/ ImportStart
    \/ ImportLoad
    \/ ImportSuccessTimeout

Spec == Init /\ [][Next]_vars

(***************************************************************************)
(* Properties of the hierarchical form.                                    *)
(***************************************************************************)
idSet(pages) == { pages[i].id : i \in 1..Len(pages) }

pageSet(pages) == { pages[i] : i \in 1..Len(pages) }

\* The pages below `id` at every depth, following parentId.
RECURSIVE descendantsOf(_, _, _)
descendantsOf(pages, ids, fuel) ==
    LET kids == { p.id : p \in { q \in pageSet(pages) : q.parentId \in ids } }
    IN  IF fuel = 0 \/ kids = {} THEN {}
        ELSE kids \cup descendantsOf(pages, kids, fuel - 1)

noOrphan(pages) ==
    \A p \in pageSet(pages) :
        p.parentId # Undefined => p.parentId \in idSet(pages)

\* C4: deleting a page removes exactly that page and all of its descendants
\* at every depth and nothing else, and after a delete every remaining page
\* with a parentId refers to a page still present.
DeleteCascades ==
    [][ last'.op = "deletePage" =>
            /\ idSet(config'.pages) =
                  idSet(config.pages) \ ({last'.pageId} \cup
                      descendantsOf(config.pages, {last'.pageId}, Len(config.pages)))
            /\ noOrphan(config'.pages) ]_vars

\* C5: every page has a level in 1..3, a level-1 page has no parentId, and
\* a page of level 2 or 3 has a parentId naming an existing page whose
\* level is exactly one less.
HierarchyWellFormed ==
    \A p \in pageSet(config.pages) :
        /\ p.level \in {1, 2, 3}
        /\ p.level = 1 => p.parentId = Undefined
        /\ p.level \in {2, 3} =>
              \E q \in pageSet(config.pages) :
                  q.id = p.parentId /\ q.level = p.level - 1

RECURSIVE sumInner(_, _)
sumInner(menu, i) ==
    IF i > Len(menu) THEN 0 ELSE Len(menu[i].menu) + sumInner(menu, i + 1)

atLevel(pages, level) == { p \in pageSet(pages) : p.level = level }

\* C6: right after the import of a two-level document the number of level-1
\* pages is the outer menu length, the number of level-2 pages is the sum of
\* the inner menu lengths, and every level-2 page's parentId is the id of a
\* level-1 page of the list whose children list contains it.
TwoLevelImportShape ==
    (last.op = "importLoad" /\ last.doc \in TwoLevelDocs) =>
        /\ Cardinality(idSet(config.pages)) = Len(config.pages)
        /\ Cardinality(atLevel(config.pages, 1)) = Len(last.doc.menu)
        /\ Cardinality(atLevel(config.pages, 2)) = sumInner(last.doc.menu, 1)
        /\ Len(config.pages) = Len(last.doc.menu) + sumInner(last.doc.menu, 1)
        /\ \A p \in atLevel(config.pages, 2) :
              \E q \in atLevel(config.pages, 1) :
                  /\ q.id = p.parentId
                  /\ \E c \in 1..Len(q.children) : q.children[c] = p.id

TwoLevelImported ==
    /\ last.op = "importLoad"
    /\ last.doc = twoLevel(<<2, 1>>)
    /\ Cardinality(atLevel(config.pages, 2)) = 3

malformed(doc) == doc.parse = "error" \/ doc.menuKind # "array"

\* C7: an import that fails (unparseable text, menu missing or not an array)
\* sets the import error and leaves the configuration as it was; the pages
\* change in an import only when it succeeds, and then to the complete
\* converted list, none of the old pages remaining.
FailedImportKeepsPages ==
    [][ last'.op \in {"importStart", "importLoad"} =>
            /\ last'.op = "importStart" => config' = config
            /\ (last'.op = "importLoad" /\ malformed(last'.doc)) =>
                  /\ config' = config
                  /\ jsonImportError' # Null
            /\ (last'.op = "importLoad" /\ config'.pages # config.pages) =>
                  /\ ~ malformed(last'.doc)
                  /\ jsonImportError' = Null
                  /\ idSet(config'.pages) \cap idSet(config.pages) = {}
                  /\ Cardinality(atLevel(config'.pages, 1)) = Len(last'.doc.menu) ]_vars

ImportFailedOverPages ==
    /\ last.op = "importLoad"
    /\ malformed(last.doc)
    /\ jsonImportError # Null
    /\ Len(config.pages) >= 2

(***************************************************************************)
(* Assets manager.  File names are sequences of characters.  A path is the *)
(* directory prefix, held as one element, followed by the characters of    *)
(* the file name.                                                          *)
(***************************************************************************)
MaxAssets == 2          \* assets in the list
MaxFilesPerUpload == 1  \* files in one upload event
MaxNameLen == 8         \* longest asset name the rename dialog is opened on

toLowerCaseChar(c) ==
    IF c = "R" THEN "r" ELSE IF c = "M" THEN "m" ELSE IF c = "P" THEN "p" ELSE c

toLowerCase(str) == [i \in 1..Len(str) |-> toLowerCaseChar(str[i])]

endsWith(str, suffix) ==
    /\ Len(suffix) <= Len(str)
    /\ SubSeq(str, Len(str) - Len(suffix) + 1, Len(str)) = suffix

\* String.prototype.lastIndexOf(c), 1-based; 0 when c does not occur (-1).
lastIndexOf(str, c) ==
    IF \E i \in 1..Len(str) : str[i] = c
    THEN CHOOSE i \in 1..Len(str) :
            /\ str[i] = c
            /\ \A j \in (i + 1)..Len(str) : str[j] # c
    ELSE 0

\* String.prototype.substring(start) for the 0-based start = from - 1, where
\* `from` is a 1-based position or 0 for the -1 of a failed search: a
\* negative start is treated as 0, so the whole string is returned.
substringFrom(str, from) ==
    IF from = 0 THEN str ELSE SubSeq(str, from, Len(str))

isSpace(c) == c = " "

\* String.prototype.trim.
trim(str) ==
    IF \A i \in 1..Len(str) : isSpace(str[i]) THEN <<>>
    ELSE LET first == CHOOSE i \in 1..Len(str) :
                        ~ isSpace(str[i]) /\ \A j \in 1..(i - 1) : isSpace(str[j])
             lastc == CHOOSE i \in 1..Len(str) :
                        ~ isSpace(str[i]) /\ \A j \in (i + 1)..Len(str) : isSpace(str[j])
         IN  SubSeq(str, first, lastc)

\* name.replace(/\.[^/.]+$/, ""): drop a final '.' with at least one
\* following character, none of them '.' or '/'.
removeExtension(name) ==
    LET dot == lastIndexOf(name, ".") IN
    IF /\ dot # 0
       /\ dot < Len(name)
       /\ \A j \in (dot + 1)..Len(name) : name[j] # "/"
    THEN SubSeq(name, 1, dot - 1)
    ELSE name

\* fileTypeConfig[type].extensions, in the order of the object's keys.
fileTypeOrder == <<"image", "video", "audio", "document">>

extensions(type) ==
    IF type = "image" THEN
        { <<".", "j", "p", "g">>, <<".", "j", "p", "e", "g">>, <<".", "p", "n", "g">>,
          <<".", "g", "i", "f">>, <<".", "b", "m", "p">>, <<".", "s", "v", "g">>,
          <<".", "w", "e", "b", "p">> }
    ELSE IF type = "video" THEN
        { <<".", "m", "p", "4">>, <<".", "a", "v", "i">>, <<".", "m", "o", "v">>,
          <<".", "w", "m", "v">>, <<".", "f", "l", "v">>, <<".", "w", "e", "b", "m">> }
    ELSE IF type = "audio" THEN
        { <<".", "m", "p", "3">>, <<".", "w", "a", "v">>, <<".", "o", "g", "g">>,
          <<".", "a", "a", "c">>, <<".", "f", "l", "a", "c">> }
    ELSE
        { <<".", "p", "d", "f">>, <<".", "d", "o", "c">>, <<".", "d", "o", "c", "x">>,
          <<".", "t", "x", "t">>, <<".", "r", "t", "f">> }

getFileType(fileName) ==
    LET extension == toLowerCase(fileName)
        matches == { t \in 1..Len(fileTypeOrder) :
                        \E ext \in extensions(fileTypeOrder[t]) : endsWith(extension, ext) }
    IN  IF matches = {} THEN "document"
        ELSE fileTypeOrder[CHOOSE t \in matches : \A u \in matches : t <= u]

generateAssetPath(fileName, type) == <<"assets/" \o type \o "s/">> \o fileName

\* The asset handleFileUpload builds for one file.
\* A path held as a sequence of elements, as the one string it spells.
RECURSIVE pathText(_)
pathText(path) ==
    IF path = <<>> THEN "" ELSE Head(path) \o pathText(Tail(path))

newAsset(file, id) ==
    [ id   |-> id,
      name |-> file.name,
      type |-> getFileType(file.name),
      file |-> file,
      path |-> generateAssetPath(file.name, getFileType(file.name)) ]

\* handleFileUpload(files): the list passed to onChange.
RECURSIVE handleFileUpload(_, _, _)
handleFileUpload(list, files, next) ==
    IF files = <<>> THEN list
    ELSE handleFileUpload(Append(list, newAsset(Head(files), uuidv4(next))),
                          Tail(files), next + 1)

\* handleRenameConfirm: the list passed to onChange (unchanged on the early
\* return).
handleRenameConfirm(list, dialog) ==
    IF dialog.asset = nullAsset \/ trim(dialog.newName) = <<>> THEN list
    ELSE
        LET fileExtension == substringFrom(dialog.asset.name,
                                           lastIndexOf(dialog.asset.name, "."))
            newFileName == trim(dialog.newName) \o fileExtension
        IN  [i \in 1..Len(list) |->
                IF list[i].id = dialog.asset.id
                THEN [list[i] EXCEPT !.name = newFileName,
                                     !.path = generateAssetPath(newFileName, list[i].type)]
                ELSE list[i]]

\* The files the model uploads: d.png, README, n.MP3, a.b.txt.
UploadFiles ==
    { [name |-> <<"d", ".", "p", "n", "g">>, bytes |-> "png-bytes"],
      [name |-> <<"R", "E", "A", "D", "M", "E">>, bytes |-> "readme-bytes"],
      [name |-> <<"n", ".", "M", "P", "3">>, bytes |-> "mp3-bytes"],
      [name |-> <<"a", ".", "b", ".", "t", "x", "t">>, bytes |-> "txt-bytes"] }

\* What the model types into the rename field: "", " ", "n", " n ", "n.x".
RenameInputs ==
    { <<>>, <<" ">>, <<"n">>, <<" ", "n", " ">>, <<"n", ".", "x">> }

RECURSIVE seqsOfLen(_, _)
seqsOfLen(S, n) ==
    IF n = 0 THEN { <<>> }
    ELSE { Append(q, x) : q \in seqsOfLen(S, n - 1), x \in S }

pageVars == <<config, formVars>>

\* handleFileUpload: files dropped or chosen.
UploadAssets ==
    \E n \in 1..MaxFilesPerUpload :
        \E files \in seqsOfLen(UploadFiles, n) :
            /\ ~ renameDialog.open
            /\ Len(assets) + n <= MaxAssets
            /\ nextUuid + n - 1 <= MaxUuid
            /\ assets' = handleFileUpload(assets, files, nextUuid)
            /\ nextUuid' = nextUuid + n
            /\ UNCHANGED wizardVars
            /\ last' = [op |-> "upload", files |-> files]
            /\ UNCHANGED <<pageVars, imports, renameDialog, exportVars>>

\* handleDeleteAsset(assetId).
DeleteAsset ==
    \E i \in 1..Len(assets) :
        LET notIt(asset) == asset.id # assets[i].id IN
        /\ ~ renameDialog.open
        /\ assets' = SelectSeq(assets, notIt)
        /\ UNCHANGED wizardVars
        /\ last' = [op |-> "deleteAsset", assetId |-> assets[i].id]
        /\ UNCHANGED <<pageVars, countVars, renameDialog, exportVars>>

\* handleRenameAsset(asset): the rename dialog opens.
RenameAsset ==
    \E i \in 1..Len(assets) :
        /\ ~ renameDialog.open
        /\ Len(assets[i].name) <= MaxNameLen
        /\ renameDialog' = [open |-> TRUE, asset |-> assets[i],
                            newName |-> removeExtension(assets[i].name)]
        /\ UNCHANGED wizardVars
        /\ last' = [op |-> "renameAsset", assetId |-> assets[i].id]
        /\ UNCHANGED <<pageVars, countVars, assets, exportVars>>

\* onChange of the "New file name" field.
RenameType ==
    \E text \in RenameInputs :
        /\ renameDialog.open
        /\ renameDialog.newName # text
        /\ renameDialog' = [renameDialog EXCEPT !.newName = text]
        /\ UNCHANGED wizardVars
        /\ last' = [op |-> "renameType"]
        /\ UNCHANGED <<pageVars, countVars, assets, exportVars>>

\* handleRenameConfirm.  The early return leaves the dialog open.
RenameConfirm ==
    /\ renameDialog.open
    /\ assets' = handleRenameConfirm(assets, renameDialog)
    /\ renameDialog' = IF renameDialog.asset = nullAsset \/ trim(renameDialog.newName) = <<>>
                       THEN renameDialog
                       ELSE noRenameDialog
    /\ UNCHANGED wizardVars
    /\ last' = [op |-> "renameConfirm", dialog |-> renameDialog]
    /\ UNCHANGED <<pageVars, countVars, exportVars>>

\* Cancel, or onClose of the rename dialog.
RenameCancel ==
    /\ renameDialog.open
    /\ renameDialog' = noRenameDialog
    /\ UNCHANGED wizardVars
    /\ last' = [op |-> "renameCancel"]
    /\ UNCHANGED <<pageVars, countVars, assets, exportVars>>

NextAssets ==
    \/ UploadAssets
    \/ DeleteAsset
    \/ RenameAsset
    \/ RenameType
    \/ RenameConfirm
    \/ RenameCancel

SpecAssets == Init /\ [][NextAssets]_vars

\* The extension of a file name: from its last '.', empty without one.
extensionOf(name) ==
    IF lastIndexOf(name, ".") = 0 THEN <<>>
    ELSE SubSeq(name, lastIndexOf(name, "."), Len(name))

\* C8: confirming a rename to a non-blank name N (read without its
\* surrounding blanks) gives the asset the name N followed by the original
\* extension and the path assets/<type>s/<N><ext>, leaving its id, type and
\* payload and every other asset unchanged; a blank name changes nothing.
RenameKeepsExtension ==
    [][ last'.op = "renameConfirm" =>
            LET dialog == last'.dialog
                N == trim(dialog.newName)
                named == N \o extensionOf(dialog.asset.name)
            IN  IF N = <<>> THEN assets' = assets
                ELSE /\ Len(assets') = Len(assets)
                     /\ \A i \in 1..Len(assets) :
                          assets'[i] =
                            IF assets[i].id = dialog.asset.id
                            THEN [assets[i] EXCEPT
                                    !.name = named,
                                    !.path = <<"assets/" \o assets[i].type \o "s/">>
                                                \o named]
                            ELSE assets[i] ]_vars

(***************************************************************************)
(* Flat content-pages form: a list of pages without hierarchy.             *)
(***************************************************************************)
FlatTitles == {"A", "B"}    \* titles typed into the Page Title field

\* handleAddPage of the flat form.
handleAddPageFlat(pages, newId) ==
    Append(pages, [ id      |-> newId,
                    title   |-> "Page " \o ToString(Len(pages) + 1),
                    content |-> "<p>Add your content here...</p>",
                    order   |-> Len(pages) + 1,
                    type    |-> "content" ])

\* .map((page, index) => ({...page, order: index + 1}))
renumber(pages) == [i \in 1..Len(pages) |-> [pages[i] EXCEPT !.order = i]]

\* handleDeletePage of the flat form.
handleDeletePageFlat(pages, pageId) ==
    LET notIt(page) == page.id # pageId IN renumber(SelectSeq(pages, notIt))

\* handleUpdatePage(pageId, {title}).
handleUpdatePage(pages, pageId, title) ==
    [i \in 1..Len(pages) |->
        IF pages[i].id = pageId THEN [pages[i] EXCEPT !.title = title] ELSE pages[i]]

\* updatedPages.splice(from, 1) followed by updatedPages.splice(to, 0, moved).
spliceMove(pages, from, to) ==
    LET without == SubSeq(pages, 1, from - 1) \o SubSeq(pages, from + 1, Len(pages))
    IN  SubSeq(without, 1, to - 1) \o <<pages[from]>> \o SubSeq(without, to, Len(without))

\* handleMovePage without the renumbering of the order fields.
handleMovePageStaleOrder(pages, pageId, direction) ==
    LET currentIndex == findIndex(pages, pageId)
        newIndex == IF direction = "up" THEN currentIndex - 1 ELSE currentIndex + 1
    IN  IF currentIndex = 0 THEN pages
        ELSE IF newIndex < 1 \/ newIndex > Len(pages) THEN pages
        ELSE spliceMove(pages, currentIndex, newIndex)

\* handleMovePage(pageId, direction).
handleMovePage(pages, pageId, direction) ==
    LET currentIndex == findIndex(pages, pageId)
        newIndex == IF direction = "up" THEN currentIndex - 1 ELSE currentIndex + 1
    IN  IF currentIndex = 0 THEN pages
        ELSE IF newIndex < 1 \/ newIndex > Len(pages) THEN pages
        ELSE renumber(spliceMove(pages, currentIndex, newIndex))

otherVars == <<selectedPage, jsonImportError, jsonImportSuccess, reading,
               successTimers, imports, assetVars, exportVars>>

\* "Add Page".
AddPageFlat ==
    /\ nextUuid <= MaxUuid
    /\ Len(config.pages) < MaxPages
    /\ config' = setPages(config, handleAddPageFlat(config.pages, uuidv4(nextUuid)))
    /\ editingPage' = uuidv4(nextUuid)
    /\ nextUuid' = nextUuid + 1
    /\ UNCHANGED wizardVars
    /\ last' = [op |-> "addPage"]
    /\ UNCHANGED otherVars

\* The delete button of a page.
DeletePageFlat ==
    \E i \in 1..Len(config.pages) :
        LET pageId == config.pages[i].id IN
        /\ config' = setPages(config, handleDeletePageFlat(config.pages, pageId))
        /\ editingPage' = IF editingPage = pageId THEN Null ELSE editingPage
        /\ UNCHANGED wizardVars
        /\ last' = [op |-> "deletePage", pageId |-> pageId]
        /\ UNCHANGED <<nextUuid, otherVars>>

\* The up and down buttons of a page; up is disabled on the first page and
\* down on the last.
MovePageFlat ==
    \E i \in 1..Len(config.pages), direction \in {"up", "down"} :
        LET pageId == config.pages[i].id IN
        /\ direction = "up" => i # 1
        /\ direction = "down" => i # Len(config.pages)
        /\ config' = setPages(config, handleMovePage(config.pages, pageId, direction))
        /\ UNCHANGED wizardVars
        /\ last' = [op |-> "movePage", pageId |-> pageId, direction |-> direction,
                    from |-> i]
        /\ UNCHANGED <<editingPage, nextUuid, otherVars>>

\* The edit button of a page: setEditingPage(isEditing ? null : page.id).
ToggleEditFlat ==
    \E i \in 1..Len(config.pages) :
        LET pageId == config.pages[i].id IN
        /\ editingPage' = IF editingPage = pageId THEN Null ELSE pageId
        /\ UNCHANGED wizardVars
        /\ last' = [op |-> "toggleEdit", pageId |-> pageId]
        /\ UNCHANGED <<config, nextUuid, otherVars>>

\* Typing in the Page Title field, enabled while the page is being edited.
UpdateTitleFlat ==
    \E i \in 1..Len(config.pages), title \in FlatTitles :
        LET pageId == config.pages[i].id IN
        /\ editingPage = pageId
        /\ config.pages[i].title # title
        /\ config' = setPages(config, handleUpdatePage(config.pages, pageId, title))
        /\ UNCHANGED wizardVars
        /\ last' = [op |-> "updatePage", pageId |-> pageId]
        /\ UNCHANGED <<editingPage, nextUuid, otherVars>>

NextFlat ==
    \/ AddPageFlat
    \/ DeletePageFlat
    \/ MovePageFlat
    \/ ToggleEditFlat
    \/ UpdateTitleFlat

SpecFlat == Init /\ [][NextFlat]_vars

(***************************************************************************)
(* LatestCorePhpGenerator.  The lesson title is a sequence of characters   *)
(* (it is trimmed by the validation and mapped character by character into *)
(* the archive name); a text the code only interpolates (a fixed text, a  *)
(* page title) is one element.  The values of template variables are held in their            *)
(* String(value) form.  The registered sign of the localized texts is      *)
(* written (R).                                                            *)
(***************************************************************************)
\* getTemplateVariables without the || fallbacks of title, description and
\* keywords.
getTemplateVariablesNoFallback(cfg, year) ==
    [ lessonTitle       |-> cfg.lessonTitle,
      lessonDesc        |-> cfg.description,
      lessonKeys        |-> cfg.keywords,
      lessonID          |-> IF cfg.lessonId # "" THEN cfg.lessonId ELSE "0",
      lessonPath        |-> "/",
      copyrightYear     |-> ToString(year),
      splashImageCredit |-> "",
      lessonLang        |-> IF cfg.language # "" THEN cfg.language ELSE "EN",
      templateType      |-> "multi-print" ]

\* getTemplateVariables(), with `year` the current calendar year.
getTemplateVariables(cfg, year) ==
    [ lessonTitle       |-> IF cfg.lessonTitle # <<>> THEN cfg.lessonTitle
                            ELSE <<"Untitled Lesson">>,
      lessonDesc        |-> IF cfg.description # "" THEN cfg.description
                            ELSE "MetEd lesson created with the lesson generator",
      lessonKeys        |-> IF cfg.keywords # "" THEN cfg.keywords
                            ELSE "meteorology, education, training",
      lessonID          |-> IF cfg.lessonId # "" THEN cfg.lessonId ELSE "0",
      lessonPath        |-> "/",
      copyrightYear     |-> ToString(year),
      splashImageCredit |-> "",
      lessonLang        |-> IF cfg.language # "" THEN cfg.language ELSE "EN",
      templateType      |-> "multi-print" ]

getLangCode(cfg) ==
    IF cfg.language = "ES" THEN "es" ELSE IF cfg.language = "FR" THEN "fr" ELSE "en"

getProducedByText(cfg) ==
    IF cfg.language = "ES" THEN "Producido por The COMET(R) Program"
    ELSE IF cfg.language = "FR" THEN "Produit par le programme COMET(R)"
    ELSE "Produced by The COMET&reg; Program"

getAllRightsReservedText(cfg) ==
    IF cfg.language = "ES" THEN "Reservados todos los derechos."
    ELSE IF cfg.language = "FR" THEN "Tous droits reserves."
    ELSE "All Rights Reserved."

getLegalNoticesText(cfg) ==
    IF cfg.language = "ES" THEN "Avisos legales"
    ELSE IF cfg.language = "FR" THEN "Mentions juridiques"
    ELSE "Legal notices"

getLegalNoticesUrl(cfg) ==
    IF cfg.language = "ES" THEN "https://meted.ucar.edu/legal_es.htm"
    ELSE IF cfg.language = "FR" THEN "https://meted.ucar.edu/legal.htm"
    ELSE "https://meted.ucar.edu/legal.htm"

getBackToTopText(cfg) ==
    IF cfg.language = "ES" THEN "Arriba"
    ELSE IF cfg.language = "FR" THEN "Haut de la page"
    ELSE "Back to Top"

\* generateUnitPrintContent naming the unit's section by the page identifier.
generateUnitPrintContentById(cfg, page, unitNumber, year) ==
    LET templateVars == getTemplateVariables(cfg, year) IN
    [ htmlLang          |-> getLangCode(cfg),
      headTitle         |-> templateVars.lessonTitle,
      metaDescription   |-> templateVars.lessonDesc,
      metaKeywords      |-> templateVars.lessonKeys,
      moduleTitle       |-> <<page.title>>,
      moduleCredit      |-> getProducedByText(cfg),
      tocHref           |-> "#page_" \o page.id,
      tocText           |-> <<page.title>>,
      sectionId         |-> "page_" \o page.id,
      sectionHeading    |-> <<page.title>>,
      unitContent       |-> "Content Placeholder",
      unitLabel         |-> <<page.title>>,
      copyrightYear     |-> templateVars.copyrightYear,
      allRightsReserved |-> getAllRightsReservedText(cfg),
      legalNoticesUrl   |-> getLegalNoticesUrl(cfg),
      legalNoticesText  |-> getLegalNoticesText(cfg),
      backToTop         |-> getBackToTopText(cfg) ]

\* generateUnitPrintContent emitting the authored content of the page in
\* place of the placeholder block.
generateUnitPrintContentAuthored(cfg, page, unitNumber, year) ==
    LET templateVars == getTemplateVariables(cfg, year) IN
    [ htmlLang          |-> getLangCode(cfg),
      headTitle         |-> templateVars.lessonTitle,
      metaDescription   |-> templateVars.lessonDesc,
      metaKeywords      |-> templateVars.lessonKeys,
      moduleTitle       |-> <<page.title>>,
      moduleCredit      |-> getProducedByText(cfg),
      tocHref           |-> "#page_" \o ToString(unitNumber) \o "-0-0",
      tocText           |-> <<page.title>>,
      sectionId         |-> "page_" \o ToString(unitNumber) \o "-0-0",
      sectionHeading    |-> <<page.title>>,
      unitContent       |-> page.content,
      unitLabel         |-> <<page.title>>,
      copyrightYear     |-> templateVars.copyrightYear,
      allRightsReserved |-> getAllRightsReservedText(cfg),
      legalNoticesUrl   |-> getLegalNoticesUrl(cfg),
      legalNoticesText  |-> getLegalNoticesText(cfg),
      backToTop         |-> getBackToTopText(cfg) ]

\* generateUnitPrintContent(page, unitNumber): the returned template literal,
\* as the values of its interpolations in document order; unitContent is the
\* fixed placeholder block that stands where the unit's content would be.
generateUnitPrintContent(cfg, page, unitNumber, year) ==
    LET templateVars == getTemplateVariables(cfg, year) IN
    [ htmlLang          |-> getLangCode(cfg),
      headTitle         |-> templateVars.lessonTitle,
      metaDescription   |-> templateVars.lessonDesc,
      metaKeywords      |-> templateVars.lessonKeys,
      moduleTitle       |-> <<page.title>>,
      moduleCredit      |-> getProducedByText(cfg),
      tocHref           |-> "#page_" \o ToString(unitNumber) \o "-0-0",
      tocText           |-> <<page.title>>,
      sectionId         |-> "page_" \o ToString(unitNumber) \o "-0-0",
      sectionHeading    |-> <<page.title>>,
      unitContent       |-> "Content Placeholder",
      unitLabel         |-> <<page.title>>,
      copyrightYear     |-> templateVars.copyrightYear,
      allRightsReserved |-> getAllRightsReservedText(cfg),
      legalNoticesUrl   |-> getLegalNoticesUrl(cfg),
      legalNoticesText  |-> getLegalNoticesText(cfg),
      backToTop         |-> getBackToTopText(cfg) ]

\* JSZip.file(name, data): the archive is the set of its entries, a later
\* entry of the same name replacing the earlier one.
zipFile(zip, name, data) ==
    { e \in zip : e.name # name } \cup { [name |-> name, data |-> data] }

printName(unitNumber) == "print_" \o ToString(unitNumber) \o ".php"

\* generateUnitPrintFiles(zip): pages.forEach((page, index) => ...), from
\* the 1-based position `index` on.
RECURSIVE generateUnitPrintFiles(_, _, _, _)
generateUnitPrintFiles(zip, cfg, year, index) ==
    IF index > Len(cfg.pages) THEN zip
    ELSE generateUnitPrintFiles(
            zipFile(zip, printName(index),
                    generateUnitPrintContent(cfg, cfg.pages[index], index, year)),
            cfg, year, index + 1)

(***************************************************************************)
(* Template processing.  A template text is a sequence of elements: an     *)
(* element is a run of plain text, a blank, or one marker (a variable      *)
(* token <%= name %> or a delimiter of a conditional block), so that the   *)
(* regular expressions of the code, whose patterns are these markers with  *)
(* a lazy [\s\S]*? between them, become searches for elements.             *)
(***************************************************************************)
\* The texts matched by new RegExp(`<%=\\s*${key}\\s*%>`) that occur in the
\* template texts considered.
tokenForms(key) == { "<%= " \o key \o " %>", "<%=" \o key \o "%>" }

\* Object.entries(variables) in insertion order, each value as String(value)
\* in the form of a text.
variableEntries(templateVars) ==
    << [key |-> "lessonTitle", value |-> templateVars.lessonTitle],
       [key |-> "lessonDesc", value |-> <<templateVars.lessonDesc>>],
       [key |-> "lessonKeys", value |-> <<templateVars.lessonKeys>>],
       [key |-> "lessonID", value |-> <<templateVars.lessonID>>],
       [key |-> "lessonPath", value |-> <<templateVars.lessonPath>>],
       [key |-> "copyrightYear", value |-> <<templateVars.copyrightYear>>],
       [key |-> "splashImageCredit", value |-> <<templateVars.splashImageCredit>>],
       [key |-> "lessonLang", value |-> <<templateVars.lessonLang>>],
       [key |-> "templateType", value |-> <<templateVars.templateType>>] >>

\* The replacement patterns String.prototype.replace expands in a
\* replacement string: $& is the matched text and $$ a dollar sign.  (The
\* patterns $`, $' and $<n> do not occur in the values considered.)
expandReplacement(value, matched) ==
    [i \in 1..Len(value) |->
        IF value[i] = "$&" THEN matched
        ELSE IF value[i] = "$$" THEN "$"
        ELSE value[i]]

\* content.replace(regex, String(value)) for the token of one key: one
\* pass over the text, the inserted text not being scanned again by it.
RECURSIVE replaceToken(_, _, _, _)
replaceToken(content, key, value, i) ==
    IF i > Len(content) THEN <<>>
    ELSE (IF content[i] \in tokenForms(key)
          THEN expandReplacement(value, content[i])
          ELSE <<content[i]>>)
            \o replaceToken(content, key, value, i + 1)

\* Object.entries(variables).forEach(...): one replace after the other, each
\* on the result of the one before, from entry k on.
RECURSIVE replaceVariables(_, _, _)
replaceVariables(content, entries, k) ==
    IF k > Len(entries) THEN content
    ELSE replaceVariables(replaceToken(content, entries[k].key, entries[k].value, 1),
                          entries, k + 1)

\* The first position from `from` on that holds `element`, 0 when none.
indexFrom(content, element, from) ==
    IF \E i \in from..Len(content) : content[i] = element
    THEN CHOOSE i \in from..Len(content) :
            content[i] = element /\ \A j \in from..(i - 1) : content[j] # element
    ELSE 0

\* The first match, from `from` on, of the markers of `shape` in this order
\* with anything between them (each lazy [\s\S]*? ends at the first marker
\* that lets the rest match, and if the first opening marker cannot be
\* completed no later one can); start = 0 when there is none.
firstMatch(content, shape, from) ==
    LET start == indexFrom(content, shape[1], from)
        follow[k \in 1..Len(shape)] ==
            IF k = 1 THEN start
            ELSE IF follow[k - 1] = 0 THEN 0
            ELSE indexFrom(content, shape[k], follow[k - 1] + 1)
    IN  [start |-> IF follow[Len(shape)] = 0 THEN 0 ELSE start, at |-> follow]

\* The markers of the language blocks of the two replace calls of
\* processLanguageConditionals.
languageShapes ==
    << << "<% if (lessonLang === 'ES') { %>",
          "<% } else if (lessonLang === 'FR') { %>",
          "<% } else { %>", "<% } %>" >>,
       << "<% if (lessonLang==='ES' ) { %>",
          "<% } else if (lessonLang==='FR' ) { %>",
          "<% } else { %>", "<% } %>" >> >>

\* The replacer of processLanguageConditionals.  Its patterns have no
\* capture group, so the replacer is called with (match, offset, string):
\* esContent is the offset, a number, which has no trim method; frContent
\* is the whole text the replace works on; enContent is undefined.
languageReplacer(lang, whole) ==
    IF lang = "ES" THEN [threw |-> TRUE, text |-> <<>>]
    ELSE IF lang = "FR" THEN [threw |-> FALSE, text |-> trim(whole)]
    ELSE [threw |-> TRUE, text |-> <<>>]

\* content.replace(/<shape>/g, replacer) of processLanguageConditionals,
\* from position `from` on.
RECURSIVE replaceLanguageBlocks(_, _, _, _, _)
replaceLanguageBlocks(content, whole, shape, lang, from) ==
    LET m == firstMatch(content, shape, from) IN
    IF m.start = 0
    THEN [threw |-> FALSE, text |-> SubSeq(content, from, Len(content))]
    ELSE LET r == languageReplacer(lang, whole)
             rest == replaceLanguageBlocks(content, whole, shape, lang, m.at[4] + 1)
         IN  IF r.threw \/ rest.threw THEN [threw |-> TRUE, text |-> <<>>]
             ELSE [threw |-> FALSE,
                   text |-> SubSeq(content, from, m.start - 1) \o r.text \o rest.text]

\* processLanguageConditionals(content).
processLanguageConditionals(cfg, content) ==
    LET lang == IF cfg.language # "" THEN cfg.language ELSE "EN"
        first == replaceLanguageBlocks(content, content, languageShapes[1], lang, 1)
    IN  IF first.threw THEN first
        ELSE replaceLanguageBlocks(first.text, first.text, languageShapes[2], lang, 1)

\* The markers of the two replace calls of processTemplateTypeConditionals.
templateTypeShapes ==
    << << "<% if (templateType==='multi-print' || templateType==='articulate-shell' ) { %>",
          "<% } %>" >>,
       << "<% if (templateType==='articulate-shell' ) { %>",
          "<% } else { %>", "<% } %>" >> >>

\* content.replace(/<shape>/g, replacer) of processTemplateTypeConditionals:
\* the match is replaced by its last captured group, trimmed.
RECURSIVE replaceTypeBlocks(_, _, _)
replaceTypeBlocks(content, shape, from) ==
    LET m == firstMatch(content, shape, from)
        n == Len(shape)
    IN  IF m.start = 0 THEN SubSeq(content, from, Len(content))
        ELSE SubSeq(content, from, m.start - 1)
                \o trim(SubSeq(content, m.at[n - 1] + 1, m.at[n] - 1))
                \o replaceTypeBlocks(content, shape, m.at[n] + 1)

\* processTemplateTypeConditionals(content).
processTemplateTypeConditionals(content) ==
    replaceTypeBlocks(replaceTypeBlocks(content, templateTypeShapes[1], 1),
                      templateTypeShapes[2], 1)

\* processTemplateVariables(content): threw when the call ends in a
\* TypeError, and the returned text otherwise.
processTemplateVariables(cfg, content, year) ==
    LET replaced == replaceVariables(content,
                                     variableEntries(getTemplateVariables(cfg, year)), 1)
        language == processLanguageConditionals(cfg, replaced)
    IN  IF language.threw THEN language
        ELSE [threw |-> FALSE, text |-> processTemplateTypeConditionals(language.text)]

\* The fetches of processTemplateFiles in program order: the template files
\* (processed), the static files, then the files of copyDirectory for each
\* of assetDirectories (the 'assets' directory has no branch and adds none).
manifest ==
    << [target |-> "index.htm", processed |-> TRUE],
       [target |-> "navmenu.php", processed |-> TRUE],
       [target |-> "download.php", processed |-> TRUE],
       [target |-> "media_gallery.php", processed |-> TRUE],
       [target |-> "print_sample.php", processed |-> TRUE],
       [target |-> "pageTemplate.php", processed |-> TRUE],
       [target |-> "navmenu.inc.php", processed |-> TRUE],
       [target |-> "navmenu.inc_es.php", processed |-> TRUE],
       [target |-> "navmenu.inc_fr.php", processed |-> TRUE],
       [target |-> "simple_html_dom.php", processed |-> FALSE],
       [target |-> "bootstrap/css/bootstrap.min.css", processed |-> FALSE],
       [target |-> "bootstrap/js/bootstrap.min.js", processed |-> FALSE],
       [target |-> "css/meted-base.min.css", processed |-> FALSE],
       [target |-> "css/module-custom.css", processed |-> FALSE],
       [target |-> "css/module-print.css", processed |-> FALSE],
       [target |-> "ie-support/html5shiv.js", processed |-> FALSE],
       [target |-> "ie-support/respond.js", processed |-> FALSE],
       [target |-> "ie-support/ie-support.css", processed |-> FALSE],
       [target |-> "jquery/jquery.min.js", processed |-> FALSE],
       [target |-> "jquery/jquery-ui.min.js", processed |-> FALSE],
       [target |-> "jquery/jquery-ui.min.css", processed |-> FALSE],
       [target |-> "jquery/jquery-plugins.min.js", processed |-> FALSE],
       [target |-> "jquery/apps/apps.css", processed |-> FALSE],
       [target |-> "jquery/apps/apps.js", processed |-> FALSE],
       [target |-> "modernizr/modernizr.min.js", processed |-> FALSE] >>

\* response.text() of a template file of the template directory `site`.
templateText(site, target) ==
    IF site = "localized" /\ target = "index.htm"
    THEN << "<title>", "<%= lessonTitle %>", "</title>",
            "<% if (lessonLang === 'ES') { %>", " ", "Arriba", " ",
            "<% } else if (lessonLang === 'FR') { %>", " ", "Haut de la page", " ",
            "<% } else { %>", " ", "Back to Top", " ", "<% } %>",
            "<footer>", "<%= copyrightYear %>", "</footer>" >>
    ELSE << "<title>", "<%= lessonTitle %>", "</title>" >>

\* The body of one loop iteration of processTemplateFiles, or of copyFile,
\* once the fetch has settled: ok (response.ok), notOk (a response that is
\* not ok) or rejected (fetch threw).  A template file's text goes through
\* processTemplateVariables, whose TypeError lands in the catch of the
\* iteration like a rejected fetch; the data of any other entry is the
\* fetched payload, named by its file.
fetchSettled(g, outcome, site, year) ==
    LET file == manifest[g.index]
        result == IF outcome = "ok" /\ file.processed
                  THEN processTemplateVariables(g.config,
                                                templateText(site, file.target), year)
                  ELSE [threw |-> FALSE, text |-> <<>>]
    IN
    [g EXCEPT
        !.zip = IF outcome = "ok" /\ ~ result.threw
                THEN zipFile(@, file.target,
                             IF file.processed THEN [text |-> result.text]
                             ELSE [fetched |-> file.target])
                ELSE @,
        !.warnings = IF outcome = "rejected" \/ result.threw
                     THEN Append(@, file.target) ELSE @,
        !.skipped = IF outcome = "ok" THEN @ ELSE @ + 1,
        !.outcomes = Append(@, outcome),
        !.index = @ + 1]

\* getValidationErrors() testing the title without trim().
getValidationErrorsUntrimmed(cfg) ==
    (IF cfg.lessonTitle = <<>> THEN <<"Lesson title is required">> ELSE <<>>)
        \o (IF Len(cfg.pages) = 0 THEN <<"At least one content page is required">>
            ELSE <<>>)

\* getValidationErrors() of PreviewAndExport.
getValidationErrors(cfg) ==
    (IF trim(cfg.lessonTitle) = <<>> THEN <<"Lesson title is required">> ELSE <<>>)
        \o (IF Len(cfg.pages) = 0 THEN <<"At least one content page is required">>
            ELSE <<>>)

\* isValid = validationErrors.length === 0.
isValid(cfg) == Len(getValidationErrors(cfg)) = 0

\* The messages of the error alert: {!isValid && <Alert> ... </Alert>}.
validationAlert(cfg) == IF ~ isValid(cfg) THEN getValidationErrors(cfg) ELSE <<>>

\* disabled={!isValid || isGenerating} of the two export buttons.
exportDisabled(cfg, generating) == ~ isValid(cfg) \/ generating

Alnum ==
    { "a", "b", "c", "d", "e", "f", "g", "h", "i", "j", "k", "l", "m", "n", "o",
      "p", "q", "r", "s", "t", "u", "v", "w", "x", "y", "z",
      "A", "B", "C", "D", "E", "F", "G", "H", "I", "J", "K", "L", "M", "N", "O",
      "P", "Q", "R", "S", "T", "U", "V", "W", "X", "Y", "Z",
      "0", "1", "2", "3", "4", "5", "6", "7", "8", "9" }

\* `${lessonTitle?.replace(/[^a-z0-9]/gi, '_') || 'lesson'}_latest_core_php.zip`
archiveName(cfg) ==
    LET replaced == [i \in 1..Len(cfg.lessonTitle) |->
                        IF cfg.lessonTitle[i] \in Alnum THEN cfg.lessonTitle[i] ELSE "_"]
    IN  (IF replaced # <<>> THEN replaced ELSE <<"lesson">>)
            \o <<"_latest_core_php.zip">>


\* handleGenerateLatestCorePhp up to the first fetch: the button is enabled
\* when the configuration is valid and no export is running.
GenerateLatestCorePhp ==
    /\ ~ exportDisabled(config, isGenerating)
    /\ gen.pc = "idle"
    /\ exports < MaxExports
    /\ exports' = exports + 1
    /\ isGenerating' = TRUE
    /\ gen' = [pc |-> "fetching", config |-> config, zip |-> {}, index |-> 1,
               warnings |-> <<>>, skipped |-> 0, outcomes |-> <<>>]
    /\ UNCHANGED wizardVars
    /\ last' = [op |-> "generateLatestCorePhp"]
    /\ UNCHANGED <<pageVars, countVars, assetVars, currentYear, templateVariables,
                   downloads, alerts, served, processed>>

\* downloadLessonPackage(config, assets) of utils/lessonGenerator, as far as
\* the specification describes the package: every asset is placed at its
\* canonical path with its payload.  The name of the saved file is not
\* described and stands as one element.
downloadLessonPackage(cfg, assetList) ==
    [ by |-> "downloadLessonPackage",
      filename |-> <<"standard package">>,
      entries |-> { [name |-> pathText(assetList[i].path),
                       data |-> [file |-> assetList[i].file]] :
                        i \in 1..Len(assetList) } ]

\* handleGenerateAndDownload up to its await: the button is enabled when
\* the configuration is valid and no export is running.
GenerateAndDownload ==
    /\ ~ exportDisabled(config, isGenerating)
    /\ gen.pc = "idle"
    /\ exports < MaxExports
    /\ exports' = exports + 1
    /\ isGenerating' = TRUE
    /\ gen' = [pc |-> "packaging", config |-> config, assets |-> assets]
    /\ UNCHANGED wizardVars
    /\ last' = [op |-> "generateAndDownload"]
    /\ UNCHANGED <<pageVars, countVars, assetVars, currentYear, templateVariables,
                   downloads, alerts, served, processed>>

\* downloadLessonPackage settles: it has saved the package, or it threw and
\* the catch of handleGenerateAndDownload alerts; finally clears
\* isGenerating.
DownloadLessonPackageSettled ==
    \E outcome \in {"saved", "throws"} :
        /\ gen.pc = "packaging"
        /\ downloads' = IF outcome = "saved"
                        THEN Append(downloads,
                                    downloadLessonPackage(gen.config, gen.assets))
                        ELSE downloads
        /\ alerts' = IF outcome = "saved" THEN alerts
                     ELSE Append(alerts, "Failed to generate lesson package. Please check the console for details.")
        /\ isGenerating' = FALSE
        /\ gen' = [gen EXCEPT !.pc = "idle"]
        /\ UNCHANGED wizardVars
        /\ last' = [op |-> "downloadLessonPackageSettled", outcome |-> outcome]
        /\ UNCHANGED <<pageVars, countVars, assetVars, currentYear,
                       templateVariables, exports, served, processed>>

\* processTemplateFiles awaiting only its own two loops, not
\* copyAssetDirectories.
processTemplateFilesResolvedEarly(index) == index = 10

\* `await this.processTemplateFiles(zip)` resolves with the fetch of this
\* index: the last one of copyAssetDirectories, which it awaits last.
processTemplateFilesResolved(index) == index = Len(manifest)

\* A fetch settles.  After the last one generateUnitPrintFiles runs and
\* zip.generateAsync is called.
FetchSettled ==
    \E outcome \in {"ok", "notOk", "rejected"} :
        /\ gen.pc = "fetching"
        /\ outcome # "ok" => gen.skipped < MaxSkips
        /\ LET g == fetchSettled(gen, outcome, served, currentYear)
               calls == (outcome = "ok" /\ manifest[gen.index].processed)
                           \/ (processTemplateFilesResolved(gen.index)
                                /\ Len(gen.config.pages) > 0)
           IN  /\ gen' = IF processTemplateFilesResolved(gen.index)
                         THEN [g EXCEPT
                                 !.pc = "serializing",
                                 !.zip = generateUnitPrintFiles(@, gen.config,
                                                                currentYear, 1)]
                         ELSE g
               /\ templateVariables' =
                     IF calls THEN getTemplateVariables(gen.config, currentYear)
                     ELSE templateVariables
        /\ processed' =
              IF outcome = "ok" /\ manifest[gen.index].processed
              THEN LET content == templateText(served, manifest[gen.index].target)
                   IN  [called |-> TRUE, content |-> content,
                        result |-> processTemplateVariables(gen.config, content,
                                                            currentYear)]
              ELSE processed
        /\ UNCHANGED wizardVars
        /\ last' = [op |-> "fetchSettled", outcome |-> outcome]
        /\ UNCHANGED <<pageVars, countVars, assetVars, currentYear, isGenerating,
                       downloads, alerts, exports, served>>

\* generateLesson with a catch that logs and does not rethrow, so that the
\* caller sees the export succeed.
GenerateAsyncSettledSwallowed ==
    \E outcome \in {"saved", "generateAsyncThrows", "saveAsThrows"} :
        /\ gen.pc = "serializing"
        /\ downloads' = IF outcome = "saved"
                        THEN Append(downloads,
                                    [by |-> "LatestCorePhpGenerator",
                                     filename |-> archiveName(gen.config),
                                     entries |-> gen.zip])
                        ELSE downloads
        /\ isGenerating' = FALSE
        /\ gen' = [gen EXCEPT !.pc = "idle"]
        /\ UNCHANGED wizardVars
        /\ last' = [op |-> "generateAsyncSettled", outcome |-> outcome]
        /\ UNCHANGED <<pageVars, countVars, assetVars, currentYear,
                       templateVariables, exports, served, processed, alerts>>

\* zip.generateAsync settles; on success saveAs(blob, filename) is called.
\* A throw of either reaches the catch of handleGenerateLatestCorePhp, which
\* alerts; finally clears isGenerating.
GenerateAsyncSettled ==
    \E outcome \in {"saved", "generateAsyncThrows", "saveAsThrows"} :
        /\ gen.pc = "serializing"
        /\ downloads' = IF outcome = "saved"
                        THEN Append(downloads,
                                    [by |-> "LatestCorePhpGenerator",
                                     filename |-> archiveName(gen.config),
                                     entries |-> gen.zip])
                        ELSE downloads
        /\ alerts' = IF outcome = "saved" THEN alerts
                     ELSE Append(alerts, "Failed to generate latest_core_php package. Please check the console for details.")
        /\ isGenerating' = FALSE
        /\ gen' = [gen EXCEPT !.pc = "idle"]
        /\ UNCHANGED wizardVars
        /\ last' = [op |-> "generateAsyncSettled", outcome |-> outcome]
        /\ UNCHANGED <<pageVars, countVars, assetVars, currentYear,
                       templateVariables, exports, served, processed>>

(***************************************************************************)
(* BasicInfoForm: handleChange(field) of each field, with the values typed *)
(* or selected.                                                            *)
(***************************************************************************)
LessonTitles == { <<>>, <<" ">>, <<"S", " ", "1">> }
Descriptions == { "", "Storm surge basics" }
Keywords == { "", "surge" }
CopyrightYears == { "", "2010-2018" }
Languages == { "English", "Spanish", "French", "Other" }

\* handleChange(field)(event): onChange({ ...config, [field]: value }).
handleChange(cfg, field, value) == [cfg EXCEPT ![field] = value]

basicInfoUnchanged == <<formVars, countVars, assetVars, exportVars>>

ChangeLessonTitle ==
    \E value \in LessonTitles :
        /\ value # config.lessonTitle
        /\ config' = handleChange(config, "lessonTitle", value)
        /\ UNCHANGED wizardVars
        /\ last' = [op |-> "handleChange", field |-> "lessonTitle"]
        /\ UNCHANGED basicInfoUnchanged

ChangeDescription ==
    \E value \in Descriptions :
        /\ value # config.description
        /\ config' = handleChange(config, "description", value)
        /\ UNCHANGED wizardVars
        /\ last' = [op |-> "handleChange", field |-> "description"]
        /\ UNCHANGED basicInfoUnchanged

ChangeKeywords ==
    \E value \in Keywords :
        /\ value # config.keywords
        /\ config' = handleChange(config, "keywords", value)
        /\ UNCHANGED wizardVars
        /\ last' = [op |-> "handleChange", field |-> "keywords"]
        /\ UNCHANGED basicInfoUnchanged

ChangeCustomCopyrightYear ==
    \E value \in CopyrightYears :
        /\ value # config.customCopyrightYear
        /\ config' = handleChange(config, "customCopyrightYear", value)
        /\ UNCHANGED wizardVars
        /\ last' = [op |-> "handleChange", field |-> "customCopyrightYear"]
        /\ UNCHANGED basicInfoUnchanged

ChangeLanguage ==
    \E value \in Languages :
        /\ value # config.language
        /\ config' = handleChange(config, "language", value)
        /\ UNCHANGED wizardVars
        /\ last' = [op |-> "handleChange", field |-> "language"]
        /\ UNCHANGED basicInfoUnchanged

(***************************************************************************)
(* The variable resolver on the configurations the form can produce.       *)
(***************************************************************************)
\* A call of getTemplateVariables() on a generator constructed with the
\* current configuration.
ResolveVariables ==
    /\ templateVariables' = getTemplateVariables(config, currentYear)
    /\ UNCHANGED wizardVars
    /\ last' = [op |-> "getTemplateVariables"]
    /\ UNCHANGED <<pageVars, countVars, assetVars, currentYear, gen, isGenerating,
                   downloads, alerts, exports, served, processed>>

InitResolver ==
    /\ Mounted
    /\ contentForm = "hierarchical"
    /\ currentYear \in Years
    /\ served = "plain"

NextResolver ==
    \/ ChangeLessonTitle
    \/ ChangeDescription
    \/ ChangeKeywords
    \/ ChangeCustomCopyrightYear
    \/ ChangeLanguage
    \/ ResolveVariables

SpecResolver == InitResolver /\ [][NextResolver]_vars

\* C9: a call of the variable resolver yields a value for every variable;
\* the lesson title, the description and the keywords of the result are the
\* configuration's fields when these are non-empty, and "Untitled Lesson",
\* the generic description and the generic keywords when they are empty.
ResolverFallbacks ==
    [][ last'.op = "getTemplateVariables" =>
            /\ DOMAIN templateVariables' =
                  { "lessonTitle", "lessonDesc", "lessonKeys", "lessonID",
                    "lessonPath", "copyrightYear", "splashImageCredit",
                    "lessonLang", "templateType" }
            /\ templateVariables'.lessonTitle =
                  IF Len(config.lessonTitle) = 0 THEN <<"Untitled Lesson">>
                  ELSE config.lessonTitle
            /\ templateVariables'.lessonDesc =
                  IF config.description = ""
                  THEN "MetEd lesson created with the lesson generator"
                  ELSE config.description
            /\ templateVariables'.lessonKeys =
                  IF config.keywords = "" THEN "meteorology, education, training"
                  ELSE config.keywords ]_vars

\* The resolver has run on a configuration whose title, description and
\* keywords are all empty.
ResolvedEmptyFields ==
    /\ last.op = "getTemplateVariables"
    /\ config.lessonTitle = <<>>
    /\ config.description = ""
    /\ config.keywords = ""
    /\ templateVariables.lessonTitle = <<"Untitled Lesson">>

(***************************************************************************)
(* The export, on the configurations the basic-information form and the    *)
(* hierarchical content-pages form can produce.  The generator works on    *)
(* the configuration it was constructed with, so edits made while it runs  *)
(* cannot reach it; the forms are edited before the export starts.         *)
(***************************************************************************)
Editing == gen.pc = "idle" /\ exports = 0

NextExport ==
    \/ Editing /\ ChangeLessonTitle
    \/ Editing /\ ChangeCustomCopyrightYear
    \/ Editing /\ ChangeLanguage
    \/ Editing /\ AddTopLevelPage
    \/ Editing /\ AddSubPage
    \/ GenerateLatestCorePhp
    \/ FetchSettled
    \/ GenerateAsyncSettled
    \/ GenerateAndDownload
    \/ DownloadLessonPackageSettled

InitExport ==
    /\ Mounted
    /\ contentForm = "hierarchical"
    /\ currentYear \in Years
    /\ served \in TemplateSites

SpecExport == InitExport /\ [][NextExport]_vars

\* The positions of `downloads` that hold an archive saved by the
\* LatestCorePhpGenerator.
generated ==
    { d \in 1..Len(downloads) : downloads[d].by = "LatestCorePhpGenerator" }

\* The generated unit files of an archive planned for `count` pages.
printEntries(zip, count) ==
    { e \in zip : e.name \in { printName(k) : k \in 0..(count + 1) } }

\* C1: a saved archive holds exactly the generated files print_1.php ..
\* print_N.php, where N is the number of level-1 pages of the exported
\* configuration, whether or not the collection holds subpages.
OnePrintFilePerTopLevelPage ==
    \A d \in generated :
        LET N == Cardinality({ i \in 1..Len(config.pages) : config.pages[i].level = 1 })
        IN  { e.name : e \in printEntries(downloads[d].entries, Len(config.pages)) }
                = { printName(k) : k \in 1..N }

\* C3: the banner link (the module-title anchor) of every generated unit
\* file of a saved archive holds the lesson title.
BannerHoldsLessonTitle ==
    \A d \in generated :
        \A e \in printEntries(downloads[d].entries, Len(config.pages)) :
            e.data.moduleTitle = config.lessonTitle

\* C10: the resolved copyright year, and the year in the footer of every
\* generated unit file of a saved archive, is the custom copyright year of
\* the configuration when that is non-empty and the current calendar year
\* otherwise.
CopyrightYearFollowsOverride ==
    LET expected == IF config.customCopyrightYear \notin { Undefined, "" }
                    THEN config.customCopyrightYear
                    ELSE ToString(currentYear)
    IN  /\ templateVariables # noVariables =>
              templateVariables.copyrightYear = expected
        /\ \A d \in generated :
              \A e \in printEntries(downloads[d].entries, Len(config.pages)) :
                  e.data.copyrightYear = expected

(***************************************************************************)
(* The unit files generated for the page list of the flat form.            *)
(***************************************************************************)
\* The title in print_<k>.php of the archive generated for `cfg`.
printTitle(cfg, year, k) ==
    LET zip == generateUnitPrintFiles({}, cfg, year, 1)
        file == CHOOSE e \in zip : e.name = printName(k)
    IN  file.data.sectionHeading

\* The pages of `pages` with exactly k - 1 pages of smaller order.
kthByOrder(pages, k) ==
    { i \in 1..Len(pages) :
        Cardinality({ j \in 1..Len(pages) : pages[j].order < pages[i].order }) = k - 1 }

\* C2: after any add, move, delete or retitle in the flat form, the archive
\* generated for the page list has for each k in 1..Len(pages) one file
\* print_<k>.php, whose title is that of the one page with the k-th smallest
\* order; and a move of the page at position i to position j makes that
\* page the one of print_<j>.php and the page it passed the one of
\* print_<i>.php.
PrintFileFollowsOrder ==
    [][ LET pages == config'.pages
            zip == generateUnitPrintFiles({}, config', currentYear, 1)
        IN  /\ { e.name : e \in zip } = { printName(k) : k \in 1..Len(pages) }
            /\ \A k \in 1..Len(pages) :
                  /\ Cardinality(kthByOrder(pages, k)) = 1
                  /\ \A i \in kthByOrder(pages, k) :
                        printTitle(config', currentYear, k) = <<pages[i].title>>
            /\ last'.op = "movePage" =>
                  LET i == last'.from
                      j == IF last'.direction = "up" THEN i - 1 ELSE i + 1
                  IN  /\ printTitle(config', currentYear, j) = <<config.pages[i].title>>
                      /\ printTitle(config', currentYear, i) = <<config.pages[j].title>>
                      /\ config'.pages[j].id = last'.pageId ]_vars

\* A move has exchanged two pages of different titles: the title of
\* print_<from>.php is no longer that of the moved page.
MovedPageChangedPrintFile ==
    /\ last.op = "movePage"
    /\ Len(config.pages) >= 2
    /\ LET i == last.from
           j == IF last.direction = "up" THEN i - 1 ELSE i + 1
       IN  /\ config.pages[j].id = last.pageId
           /\ printTitle(config, currentYear, i) # printTitle(config, currentYear, j)

(***************************************************************************)
(* Language of the generated texts.                                        *)
(***************************************************************************)
\* The language a value of config.language stands for: the selector's
\* names and the two-letter codes; English for anything else.
languageOf(value) ==
    IF value \in { "Spanish", "ES" } THEN "es"
    ELSE IF value \in { "French", "FR" } THEN "fr"
    ELSE "en"

\* The fixed phrases of each supported language.
phrases(code) ==
    IF code = "es"
    THEN [ langCode |-> "es", producedBy |-> "Producido por The COMET(R) Program",
           allRightsReserved |-> "Reservados todos los derechos.",
           legalNoticesText |-> "Avisos legales",
           legalNoticesUrl |-> "https://meted.ucar.edu/legal_es.htm",
           backToTop |-> "Arriba" ]
    ELSE IF code = "fr"
    THEN [ langCode |-> "fr", producedBy |-> "Produit par le programme COMET(R)",
           allRightsReserved |-> "Tous droits reserves.",
           legalNoticesText |-> "Mentions juridiques",
           legalNoticesUrl |-> "https://meted.ucar.edu/legal.htm",
           backToTop |-> "Haut de la page" ]
    ELSE [ langCode |-> "en", producedBy |-> "Produced by The COMET&reg; Program",
           allRightsReserved |-> "All Rights Reserved.",
           legalNoticesText |-> "Legal notices",
           legalNoticesUrl |-> "https://meted.ucar.edu/legal.htm",
           backToTop |-> "Back to Top" ]

\* C11: in every generated unit file of a saved archive, the html lang
\* code, the produced-by text, the all-rights-reserved text, the legal
\* notices text and URL and the back-to-top text are those of the one
\* language the configuration's language value stands for: Spanish when
\* Spanish is selected, French when French is selected, English otherwise.
LanguageOutputsFollowSelection ==
    \A d \in generated :
        \A e \in printEntries(downloads[d].entries, Len(config.pages)) :
            LET want == phrases(languageOf(config.language)) IN
            /\ e.data.htmlLang = want.langCode
            /\ e.data.moduleCredit = want.producedBy
            /\ e.data.allRightsReserved = want.allRightsReserved
            /\ e.data.legalNoticesText = want.legalNoticesText
            /\ e.data.legalNoticesUrl = want.legalNoticesUrl
            /\ e.data.backToTop = want.backToTop

(***************************************************************************)
(* processTemplateVariables on template texts, for the configurations the  *)
(* basic-information form can produce.                                     *)
(***************************************************************************)
\* Lesson titles typed into the form: a plain one, one holding a
\* replacement pattern and one holding the token of another variable.
TokenTitles == { <<"S", " ", "1">>, <<"$&">>, <<"<%= lessonDesc %>">> }

\* Template texts that hold variable tokens and no conditional block.
TokenTexts ==
    { << "<h1>", "<%= lessonTitle %>", "</h1>", "<%= lessonAuthor %>" >>,
      << "<%=lessonTitle%>", " ", "<%= lessonDesc %>", "<%= copyrightYear %>" >> }

\* Template texts that hold one well-formed language block, in each of the
\* two spellings of its markers, and no variable token.
LanguageBlockTexts ==
    { << "<p>", shape[1], " ", "Arriba", " ", shape[2], " ", "Haut de la page",
         shape[3], " ", "Back to Top", " ", shape[4], "</p>" >> :
        shape \in { languageShapes[1], languageShapes[2] } }

\* Template texts that hold one template-type block.
TypeBlockTexts ==
    { << "<nav>", templateTypeShapes[1][1], " ", "print", " ",
         templateTypeShapes[1][2], "</nav>" >> }

TemplateTexts == TokenTexts \cup LanguageBlockTexts \cup TypeBlockTexts

\* handleChange('lessonTitle') with a title of TokenTitles.
TypeLessonTitle ==
    \E value \in TokenTitles :
        /\ value # config.lessonTitle
        /\ config' = handleChange(config, "lessonTitle", value)
        /\ UNCHANGED wizardVars
        /\ last' = [op |-> "handleChange", field |-> "lessonTitle"]
        /\ UNCHANGED basicInfoUnchanged

\* A call of processTemplateVariables(content) on a generator constructed
\* with the current configuration.
ProcessTemplate ==
    \E content \in TemplateTexts :
        /\ processed' = [called |-> TRUE, content |-> content,
                         result |-> processTemplateVariables(config, content,
                                                             currentYear)]
        /\ templateVariables' = getTemplateVariables(config, currentYear)
        /\ UNCHANGED wizardVars
        /\ last' = [op |-> "processTemplateVariables"]
        /\ UNCHANGED <<pageVars, countVars, assetVars, currentYear, gen, isGenerating,
                       downloads, alerts, exports, served>>

NextTemplate ==
    \/ TypeLessonTitle
    \/ ChangeDescription
    \/ ChangeLanguage
    \/ ProcessTemplate

SpecTemplate == InitResolver /\ [][NextTemplate]_vars

\* The branch of the language block of `content` that `lang` selects.
selectedBranch(content, lang) ==
    LET shape == IF indexFrom(content, languageShapes[1][1], 1) # 0
                 THEN languageShapes[1] ELSE languageShapes[2]
        m == firstMatch(content, shape, 1)
        k == IF lang = "ES" THEN 1 ELSE IF lang = "FR" THEN 2 ELSE 3
    IN  [ before |-> SubSeq(content, 1, m.start - 1),
          branch |-> SubSeq(content, m.at[k] + 1, m.at[k + 1] - 1),
          after  |-> SubSeq(content, m.at[4] + 1, Len(content)) ]

\* C12: processing a text with a well-formed language block raises no
\* error and returns the text before the block, the branch the
\* configuration's language selects (ES, FR, else) without its surrounding
\* blanks, and the text after the block, with no marker of the block left.
LanguageBlockResolved ==
    processed.called /\ processed.content \in LanguageBlockTexts =>
        LET sel == selectedBranch(processed.content, config.language) IN
        /\ ~ processed.result.threw
        /\ processed.result.text = sel.before \o trim(sel.branch) \o sel.after

\* The text with every token of a resolver variable replaced by the
\* variable's value as it is, and everything else kept, from position i on.
RECURSIVE literalSubstitution(_, _, _)
literalSubstitution(content, entries, i) ==
    IF i > Len(content) THEN <<>>
    ELSE (IF \E k \in 1..Len(entries) : content[i] \in tokenForms(entries[k].key)
          THEN LET k == CHOOSE k \in 1..Len(entries) :
                            content[i] \in tokenForms(entries[k].key)
               IN  entries[k].value
          ELSE <<content[i]>>)
            \o literalSubstitution(content, entries, i + 1)

\* C13: on a text without conditional blocks, the output of
\* processTemplateVariables is the input with each token of a resolver
\* variable replaced by that variable's value verbatim and every other
\* element, tokens of unknown names included, unchanged; an inserted value
\* is not expanded or scanned again.
TokenReplacementLiteral ==
    processed.called /\ processed.content \in TokenTexts
        /\ last.op = "processTemplateVariables" =>
        /\ ~ processed.result.threw
        /\ processed.result.text =
              literalSubstitution(processed.content,
                                  variableEntries(templateVariables), 1)

(***************************************************************************)
(* Fetch failures, ordering and failure of an export.                      *)
(***************************************************************************)
\* The export has passed its last fetch.
fetchesSettled == "outcomes" \in DOMAIN gen /\ gen.pc # "fetching"

\* C14: once the fetches of an export have settled, whichever of them
\* failed by rejecting or by a response that is not ok, the archive holds
\* every file whose fetch succeeded and every generated unit file, every
\* file whose fetch failed has a warning, and a serialization that succeeds
\* triggers the download of that archive.
FetchSkipsLeaveRestAndWarn ==
    /\ fetchesSettled =>
          /\ \A i \in 1..Len(manifest) :
                /\ gen.outcomes[i] = "ok" =>
                      \E e \in gen.zip : e.name = manifest[i].target
                /\ gen.outcomes[i] # "ok" =>
                      /\ ~ \E e \in gen.zip : e.name = manifest[i].target
                      /\ \E w \in 1..Len(gen.warnings) :
                            gen.warnings[w] = manifest[i].target
          /\ \A k \in 1..Len(gen.config.pages) :
                \E e \in gen.zip : e.name = printName(k)
    /\ last.op = "generateAsyncSettled" /\ last.outcome = "saved" =>
          /\ downloads # <<>>
          /\ downloads[Len(downloads)].entries = gen.zip

\* C15: zip.generateAsync is called only when every fetch of the export
\* has settled, as a success or as a skip, and every generated unit file is
\* in the archive; and saveAs is called only by the step in which that
\* serialization completes, with the archive that was serialized.
SerializationAfterAssembly ==
    [][ /\ gen'.pc = "serializing" =>
              /\ Len(gen'.outcomes) = Len(manifest)
              /\ gen'.index = Len(manifest) + 1
              /\ \A k \in 1..Len(gen'.config.pages) :
                    \E e \in gen'.zip : e.name = printName(k)
        /\ downloads' # downloads /\ gen.pc # "packaging" =>
              /\ gen.pc = "serializing"
              /\ last'.op = "generateAsyncSettled"
              /\ downloads' = Append(downloads,
                                     [by |-> "LatestCorePhpGenerator",
                                      filename |-> archiveName(gen.config),
                                      entries |-> gen.zip]) ]_vars

\* An export in which one fetch was skipped has been serialized and saved.
SavedAfterSkippedFetch ==
    /\ Len(downloads) = 1
    /\ "skipped" \in DOMAIN gen
    /\ gen.skipped = 1
    /\ Len(gen.outcomes) = Len(manifest)

\* C16: when zip.generateAsync or saveAs throws, no archive is downloaded,
\* the caller shows the failure alert and ends the export (isGenerating is
\* cleared, the generator is at rest), and no step of the failed export is
\* run again.
FailedSerializationAborts ==
    [][ last'.op = "generateAsyncSettled" /\ last'.outcome # "saved" =>
            /\ downloads' = downloads
            /\ alerts' = Append(alerts, "Failed to generate latest_core_php package. Please check the console for details.")
            /\ isGenerating' = FALSE
            /\ gen'.pc = "idle"
            /\ exports' = exports ]_vars

\* The download trigger has thrown: nothing was downloaded and the alert
\* is shown.
SaveAsThrew ==
    /\ last.op = "generateAsyncSettled"
    /\ last.outcome = "saveAsThrows"
    /\ downloads = <<>>
    /\ Len(alerts) = 1

(***************************************************************************)
(* Validation before export.                                               *)
(***************************************************************************)
\* C17: a step that starts an export, of either variant, starts from a
\* state whose lesson title is non-blank after trimming and whose page
\* collection is non-empty; in every other state neither export action can
\* be taken and the alert lists the message of each failed requirement.
ExportOnlyWhenValid ==
    [][ LET blank == trim(config.lessonTitle) = <<>>
            empty == Len(config.pages) = 0
        IN  /\ last'.op \in { "generateLatestCorePhp", "generateAndDownload" }
                  /\ exports' # exports => ~ blank /\ ~ empty
            /\ blank \/ empty =>
                  /\ ~ ENABLED GenerateLatestCorePhp
                  /\ ~ ENABLED GenerateAndDownload
                  /\ validationAlert(config) # <<>>
                  /\ blank <=> \E i \in 1..Len(validationAlert(config)) :
                         validationAlert(config)[i] = "Lesson title is required"
                  /\ empty <=> \E i \in 1..Len(validationAlert(config)) :
                         validationAlert(config)[i] =
                            "At least one content page is required" ]_vars

\* A page exists and the title is blank but not empty: the export actions
\* are disabled by the title alone.
BlankTitleWithPages ==
    /\ config.lessonTitle = <<" ">>
    /\ Len(config.pages) > 0
    /\ validationAlert(config) = <<"Lesson title is required">>

(***************************************************************************)
(* What a saved archive depends on.                                        *)
(***************************************************************************)
\* The configuration with the identifiers of its pages blanked.
withoutIdentifiers(cfg) ==
    [cfg EXCEPT !.pages =
        [i \in 1..Len(cfg.pages) |->
            [cfg.pages[i] EXCEPT !.id = "", !.parentId = "", !.children = <<>>]]]

\* The generator's state after the fetches from position i on have settled
\* with the outcomes given.
RECURSIVE afterFetches(_, _, _, _, _)
afterFetches(g, outcomes, site, year, i) ==
    IF i > Len(outcomes) THEN g
    ELSE afterFetches(fetchSettled(g, outcomes[i], site, year), outcomes, site, year,
                      i + 1)

\* The archive and file name of a run of the generator on `cfg` with these
\* fetch outcomes, served templates and current year.
runOf(cfg, outcomes, site, year) ==
    LET start == [pc |-> "fetching", config |-> cfg, zip |-> {}, index |-> 1,
                  warnings |-> <<>>, skipped |-> 0, outcomes |-> <<>>]
        fetched == afterFetches(start, outcomes, site, year, 1)
    IN  [ by |-> "LatestCorePhpGenerator",
          filename |-> archiveName(cfg),
          entries |-> generateUnitPrintFiles(fetched.zip, cfg, year, 1) ]

\* C18: the archive entries and the file name of a saved export are those
\* of any run of the generator on the same configuration with the same
\* fetch results and the same current year, whatever the page identifiers
\* and whatever else the wizard holds: they equal the run on the
\* configuration with its page identifiers blanked.
ArchiveDeterminedByInputs ==
    last.op = "generateAsyncSettled" /\ last.outcome = "saved" =>
        downloads[Len(downloads)] =
            runOf(withoutIdentifiers(config), gen.outcomes, served, currentYear)

\* An archive of two pages has been saved after one fetch was skipped.
SavedTwoPagesOneSkip ==
    /\ last.op = "generateAsyncSettled"
    /\ last.outcome = "saved"
    /\ Len(config.pages) = 2
    /\ gen.skipped = 1

(***************************************************************************)
(* Exports of a lesson that has assets.                                    *)
(***************************************************************************)
NextExportAssets ==
    \/ Editing /\ ChangeLessonTitle
    \/ Editing /\ AddTopLevelPage
    \/ Editing /\ UploadAssets
    \/ GenerateLatestCorePhp
    \/ FetchSettled
    \/ GenerateAsyncSettled
    \/ GenerateAndDownload
    \/ DownloadLessonPackageSettled

SpecExportAssets == Init /\ [][NextExportAssets]_vars

\* C19: every saved archive, of the Latest Core PHP export and of the
\* standard export, holds for every asset of the asset list an entry at the
\* asset's path assets/<type>s/<filename> whose content is the asset's
\* payload.
AssetsInArchive ==
    \A d \in 1..Len(downloads) :
        \A i \in 1..Len(assets) :
            /\ assets[i].path = <<"assets/" \o assets[i].type \o "s/">> \o assets[i].name
            /\ \E e \in downloads[d].entries :
                  /\ e.name = pathText(assets[i].path)
                  /\ e.data = [file |-> assets[i].file]

(***************************************************************************)
(* Display order of the pages.                                             *)
(***************************************************************************)
\* C20: as long as the page collection was built by the add, delete and
\* move actions of a content-pages form (no import), the order values of
\* its pages are exactly 1..n, each held by one page: a delete leaves no
\* gap and a later add reuses no order that another page holds.
OrdersContiguous ==
    imports = 0 =>
        /\ { config.pages[i].order : i \in 1..Len(config.pages) } = 1..Len(config.pages)
        /\ \A i, j \in 1..Len(config.pages) :
              config.pages[i].order = config.pages[j].order => i = j

(***************************************************************************)
(* Template Settings (step 1 of the wizard).                               *)
(***************************************************************************)
\* The values of the template cards offered for selection.
templateTypes == <<"latest_core_xapi", "latest_core_legacy_standard">>

\* The variants LessonConfig['templateType'] declares.
DeclaredTemplateTypes ==
    {"latest_core_legacy_standard", "latest_core_legacy_articulate",
     "latest_core_lms_agnostic"}

\* The inline onChange of LessonBuilder:
\* setLessonConfig(prev => ({ ...prev, ...updates })).
onChange(prev, updates) ==
    [f \in DOMAIN prev \cup DOMAIN updates |->
        IF f \in DOMAIN updates THEN updates[f] ELSE prev[f]]

\* The update resetToDefaults hands to onChange.
resetToDefaults == [templateType |-> "latest_core_legacy_standard", useBootstrap |-> FALSE]

\* Click on a template card or its radio button: handleTemplateChange(value).
HandleTemplateChange ==
    \E i \in 1..Len(templateTypes) :
        /\ config' = onChange(config, [templateType |-> templateTypes[i]])
        /\ UNCHANGED wizardVars
        /\ last' = [op |-> "handleTemplateChange", value |-> templateTypes[i]]
        /\ UNCHANGED basicInfoUnchanged

\* The Bootstrap checkbox: handleBootstrapChange(e.target.checked).
HandleBootstrapChange ==
    /\ config' = onChange(config, [useBootstrap |-> ~ config.useBootstrap])
    /\ UNCHANGED wizardVars
    /\ last' = [op |-> "handleBootstrapChange"]
    /\ UNCHANGED basicInfoUnchanged

\* "Reset to Defaults".
ResetToDefaults ==
    /\ config' = onChange(config, resetToDefaults)
    /\ UNCHANGED wizardVars
    /\ last' = [op |-> "resetToDefaults"]
    /\ UNCHANGED basicInfoUnchanged

NextSettings ==
    \/ HandleTemplateChange
    \/ HandleBootstrapChange
    \/ ResetToDefaults
    \/ ChangeLessonTitle
    \/ ChangeLanguage
    \/ AddTopLevelPage
    \/ UploadAssets
    \/ DeleteAsset

SpecSettings == Init /\ [][NextSettings]_vars

\* C21: config.templateType is at every moment one of the template variants
\* the LessonConfig type declares: it starts as latest_core_legacy_standard
\* and every template selection and every Reset to Defaults leaves it a
\* member of the declared set.
TemplateTypeDeclared == config.templateType \in DeclaredTemplateTypes

\* C30: Reset to Defaults restores templateType and useBootstrap to the values
\* of the initial configuration, whatever was selected before, leaves every
\* other config field and the asset list unchanged, and applying it a second
\* time changes nothing.
ResetRestoresInitial ==
    [][ last'.op = "resetToDefaults" =>
            /\ config'.templateType = initialConfig.templateType
            /\ config'.useBootstrap = initialConfig.useBootstrap
            /\ \A f \in DOMAIN config \ {"templateType", "useBootstrap"} :
                  config'[f] = config[f]
            /\ assets' = assets
            /\ onChange(config', resetToDefaults) = config' ]_vars

(***************************************************************************)
(* Unit-based content-pages form.                                          *)
(***************************************************************************)
MaxUnitAdds == 2        \* units added in one behaviour

\* Texts typed into the "Add Unit" dialog, as characters.
NewUnitTitles == { <<>>, <<" ">>, <<"A">>, <<" ", "B">> }
NewUnitDescriptions == { <<>>, <<"d", " ">> }

\* handleAddUnit with the dialog's texts and the reading of Date.now().
handleAddUnit(unitList, newUnitTitle, newUnitDescription, now) ==
    IF trim(newUnitTitle) = <<>> THEN unitList
    ELSE Append(unitList,
                [ id          |-> "unit-" \o ToString(now),
                  title       |-> pathText(trim(newUnitTitle)),
                  description |-> IF trim(newUnitDescription) = <<>> THEN Undefined
                                  ELSE pathText(trim(newUnitDescription)) ])

\* handleDeleteUnit without the test for the last unit.
handleDeleteUnitUnguarded(unitList, unitId) ==
    LET notIt(unit) == unit.id # unitId IN SelectSeq(unitList, notIt)

\* handleDeleteUnit(unitId): the list after the call (unchanged when the
\* deletion is refused with an alert).
handleDeleteUnit(unitList, unitId) ==
    IF Len(unitList) <= 1 THEN unitList
    ELSE LET notIt(unit) == unit.id # unitId IN SelectSeq(unitList, notIt)

\* The pages the sync effect builds from the units; a unit page has no
\* parentId property, which reads as undefined.
lessonPages(unitList) ==
    [ i \in 1..Len(unitList) |->
        [ id          |-> ToString(i),
          title       |-> unitList[i].title,
          description |-> unitList[i].description,
          content     |-> "<p>Unit content will be scaffolded in the template</p>",
          order       |-> i,
          type        |-> "content",
          level       |-> 1,
          parentId    |-> Undefined,
          children    |-> <<>>,
          page        |-> <<ToString(i), "0", "0">>,
          innerNode   |-> FALSE ] ]

\* The unit-based form is rendered: step 2 of a wizard built with it.
unitFormMounted == contentForm = "units" /\ activeStep = 2

\* The dependency array [units, onChange] of the current render.
depsNow == [ran |-> TRUE, units |-> units, onChange |-> onChangeRef]

\* useEffect runs after a render whose dependencies differ from those of its
\* last run (always after the first render of a mount).
effectPending == unitFormMounted /\ effectDeps # depsNow

\* A render of LessonBuilder creates the inline onChange anew: the closure
\* handed to a mounted unit form is identical to none that is still held.
inlineOnChange(step, form, held) ==
    IF form = "units" /\ step = 2
    THEN CHOOSE ref \in 0..2 :
            ref # onChangeRef /\ (held.ran => ref # held.onChange)
    ELSE 0

\* "Add Unit" of the dialog.
AddUnit ==
    \E newUnitTitle \in NewUnitTitles, newUnitDescription \in NewUnitDescriptions :
        /\ unitFormMounted
        /\ nextUnit <= MaxUnitAdds
        /\ units' = handleAddUnit(units, newUnitTitle, newUnitDescription, nextUnit)
        /\ nextUnit' = IF units' # units THEN nextUnit + 1 ELSE nextUnit
        /\ last' = [op |-> "addUnit", added |-> units' # units]
        /\ UNCHANGED <<activeStep, errors, contentForm, onChangeRef, effectDeps,
                       localPage, config, formVars, countVars, assetVars, exportVars>>

\* The delete button of a unit.
DeleteUnit ==
    \E u \in 1..Len(units) :
        /\ unitFormMounted
        /\ units' = handleDeleteUnit(units, units[u].id)
        /\ last' = [op |-> "deleteUnit", refused |-> Len(units) <= 1]
        /\ UNCHANGED <<activeStep, errors, contentForm, nextUnit, onChangeRef,
                       effectDeps, localPage, config, formVars, countVars,
                       assetVars, exportVars>>

\* The effect that copies the units into config.pages: onChange({pages}).
\* setLessonConfig stores a new object, LessonBuilder renders again and
\* hands the form a new onChange.
SyncEffect ==
    /\ effectPending
    /\ effectDeps' = depsNow
    /\ config' = onChange(config, [pages |-> lessonPages(units)])
    /\ onChangeRef' = inlineOnChange(activeStep, contentForm, depsNow)
    /\ last' = [op |-> "syncEffect", mount |-> effectDeps = noDeps]
    /\ UNCHANGED <<activeStep, errors, contentForm, units, nextUnit, localPage,
                   formVars, countVars, assetVars, exportVars>>

(***************************************************************************)
(* The wizard: steps, validation, and the form each step renders.          *)
(***************************************************************************)
steps ==
    << "Basic Information", "Template Settings", "Content Pages", "Assets & Media",
       "Preview & Export" >>

ContentForms == {"hierarchical", "units"}

\* Values typed into the Lesson ID field, and their characters.
LessonIds == {"", " ", "42"}
charsOf(id) == IF id = "" THEN <<>> ELSE IF id = " " THEN <<" ">> ELSE <<"4", "2">>

\* validateStep(step).
validateStep(cfg, step) ==
    IF step = 0
    THEN (IF trim(charsOf(cfg.lessonId)) = <<>> THEN <<"Lesson ID is required">>
          ELSE <<>>)
         \o (IF trim(cfg.lessonTitle) = <<>> THEN <<"Lesson title is required">>
             ELSE <<>>)
    ELSE IF step = 2
    THEN (IF Len(cfg.pages) = 0 THEN <<"At least one content page is required">>
          ELSE <<>>)
    ELSE <<>>

\* renderStepContent after setActiveStep: the content form is unmounted when
\* step 2 is left and mounted anew, with the initial values of its useState
\* calls, when step 2 is entered; PreviewAndExport is mounted anew, with
\* useState(false) for isGenerating, when step 4 is entered.  FileReaders,
\* timers and exports already started go on.
Rendered(step) ==
    /\ activeStep' = step
    /\ IF step # activeStep /\ (step = 2 \/ activeStep = 2)
       THEN /\ units' = initialUnits
            /\ effectDeps' = noDeps
            /\ selectedPage' = Null
            /\ editingPage' = Null
            /\ jsonImportError' = Null
            /\ jsonImportSuccess' = FALSE
            /\ localPage' = noEditor
       ELSE UNCHANGED <<units, effectDeps, selectedPage, editingPage, jsonImportError,
                        jsonImportSuccess, localPage>>
    /\ isGenerating' = IF step # activeStep /\ step = 4 THEN FALSE ELSE isGenerating
    /\ onChangeRef' = inlineOnChange(step, contentForm, effectDeps')
    /\ UNCHANGED <<contentForm, nextUnit, config, reading, successTimers, countVars,
                   assetVars, currentYear, templateVariables, gen, downloads, alerts,
                   exports, served, processed>>

\* "Next", rendered while activeStep < steps.length - 1.
HandleNext ==
    LET stepErrors == validateStep(config, activeStep) IN
    /\ activeStep < Len(steps) - 1
    /\ IF Len(stepErrors) = 0
       THEN errors' = <<>> /\ Rendered(activeStep + 1)
       ELSE errors' = stepErrors /\ Rendered(activeStep)
    /\ last' = [op |-> "handleNext", stepErrors |-> stepErrors]

\* "Back", disabled while activeStep === 0.
HandleBack ==
    /\ activeStep # 0
    /\ errors' = <<>>
    /\ Rendered(activeStep - 1)
    /\ last' = [op |-> "handleBack"]

\* The Lesson ID field of BasicInfoForm.
ChangeLessonId ==
    \E value \in LessonIds :
        /\ value # config.lessonId
        /\ config' = handleChange(config, "lessonId", value)
        /\ UNCHANGED wizardVars
        /\ last' = [op |-> "handleChange", field |-> "lessonId"]
        /\ UNCHANGED basicInfoUnchanged

\* The hierarchical form is rendered.
treeFormMounted == contentForm = "hierarchical" /\ activeStep = 2

NextUnitWizard ==
    \/ activeStep = 0 /\ ChangeLessonId
    \/ activeStep = 0 /\ ChangeLessonTitle
    \/ HandleNext
    \/ HandleBack
    \/ AddUnit
    \/ DeleteUnit
    \/ SyncEffect

NextWizard ==
    \/ NextUnitWizard
    \/ treeFormMounted /\ AddTopLevelPage
    \/ treeFormMounted /\ DeletePage
    \/ treeFormMounted /\ ImportStart
    \/ ImportLoad

InitWizard ==
    /\ Mounted
    /\ contentForm \in ContentForms
    /\ currentYear = 2026
    /\ served = "plain"

SpecWizard == InitWizard /\ [][NextWizard]_vars

\* C22: pages are never destroyed implicitly: moving between wizard steps
\* with Back and Next, which unmounts and remounts the content form and runs
\* its mount effect, never removes, resets or replaces a page; every page of
\* the collection is still there afterwards with the same fields.
PagesSurviveSteps ==
    [][ (\/ last'.op \in {"handleNext", "handleBack"}
         \/ (last'.op = "syncEffect" /\ last'.mount))
        => pageSet(config.pages) \subseteq pageSet(config'.pages) ]_vars

\* C24: the unit list of the unit-based form is never empty: a delete is
\* refused, the list unchanged, when exactly one unit remains, and the pages
\* the form pushes to the config are one level-1 page per unit whose id,
\* order and page path come from the unit's 1-based position.
UnitListNeverEmpty ==
    /\ [](Len(units) >= 1)
    /\ [][ /\ (last'.op = "deleteUnit" /\ Len(units) = 1) => units' = units
           /\ last'.op = "syncEffect" =>
                /\ Len(config'.pages) = Len(units)
                /\ \A i \in 1..Len(units) :
                      /\ config'.pages[i].level = 1
                      /\ config'.pages[i].title = units[i].title
                      /\ config'.pages[i].id = ToString(i)
                      /\ config'.pages[i].order = i
                      /\ config'.pages[i].page = <<ToString(i), "0", "0">> ]_vars

\* A delete was refused on the last unit after units had been added and
\* deleted, and the config holds the one page of that unit.
LastUnitDeleteRefused ==
    /\ last.op = "deleteUnit"
    /\ last.refused
    /\ nextUnit > 1
    /\ units[1].id # "unit-default"
    /\ Len(config.pages) = 1
    /\ config.pages[1].title = units[1].title

\* C29: the active step is always in 0..4; Next advances by exactly one step
\* only when validation of the current step returns no errors and otherwise
\* leaves the step and shows the errors; so at step 1 or later the lesson ID
\* and the lesson title are non-blank, and at step 3 or later the page
\* collection is non-empty.
WizardStepsGuarded ==
    /\ [](/\ activeStep \in 0..4
          /\ activeStep >= 1 => /\ trim(charsOf(config.lessonId)) # <<>>
                                /\ trim(config.lessonTitle) # <<>>
          /\ activeStep >= 3 => Len(config.pages) > 0)
    /\ [][ last'.op = "handleNext" =>
             IF Len(validateStep(config, activeStep)) = 0
             THEN activeStep' = activeStep + 1
             ELSE activeStep' = activeStep /\ errors' = validateStep(config, activeStep)
         ]_vars

InitUnitWizard ==
    /\ Mounted
    /\ contentForm = "units"
    /\ currentYear = 2026
    /\ served = "plain"

\* React runs an effect whose dependencies changed after every render.
SpecUnitWizard == InitUnitWizard /\ [][NextUnitWizard]_vars /\ WF_vars(SyncEffect)

\* C27: with the unit-based form mounted in LessonBuilder the sync effect
\* quiesces: whenever a run of the effect is pending, a state is reached in
\* which none is.
SyncEffectQuiesces == effectPending ~> ~ effectPending

(***************************************************************************)
(* Editing a page in the hierarchical form: the edit buttons, PageEditor    *)
(* and updatePage.                                                         *)
(***************************************************************************)
\* What is typed or chosen in the fields of PageEditor.
EditorInputs ==
    { <<"title", "Edited">>, <<"description", "About">>,
      <<"content", "<p>Authored</p>">> }

\* updatePage(pageId, updates): page.id === pageId ? {...page, ...updates} : page.
updatePage(pages, pageId, updates) ==
    [ i \in 1..Len(pages) |->
        IF pages[i].id = pageId THEN onChange(pages[i], updates) ELSE pages[i] ]

hierarchyVars == <<jsonImportError, jsonImportSuccess, reading, successTimers,
                   countVars, assetVars, exportVars, stepVars>>

\* The edit button of a rendered tree node.
EditPage ==
    \E i \in 1..Len(config.pages) :
        LET pageId == config.pages[i].id IN
        /\ pageId \in renderedNodes(config.pages)
        /\ selectedPage' = pageId
        /\ editingPage' = pageId
        /\ localPage' = pageEditor(pageId, pageId, config.pages, localPage)
        /\ last' = [op |-> "editPage", pageId |-> pageId]
        /\ UNCHANGED <<config, hierarchyVars>>

\* "Edit" of PageViewer: onEdit = () => setEditingPage(selectedPage).
ViewerEdit ==
    /\ selectedPage # Null
    /\ ~ editorOpen(selectedPage, editingPage)
    /\ editingPage' = selectedPage
    /\ localPage' = pageEditor(selectedPage, selectedPage, config.pages, localPage)
    /\ last' = [op |-> "viewerEdit"]
    /\ UNCHANGED <<config, selectedPage, hierarchyVars>>

\* A field of PageEditor: setLocalPage({...localPage, [field]: value}); the
\* content field is rendered for pages of type content only.  The type
\* select is left alone.
EditorChange ==
    \E input \in EditorInputs :
        /\ editorOpen(selectedPage, editingPage)
        /\ input[1] = "content" => localPage.type = "content"
        /\ localPage[input[1]] # input[2]
        /\ localPage' = onChange(localPage, [f \in {input[1]} |-> input[2]])
        /\ last' = [op |-> "editorChange", field |-> input[1]]
        /\ UNCHANGED <<config, selectedPage, editingPage, hierarchyVars>>

\* "Save Changes": handleSave = onUpdate(localPage); onCancel().
EditorSave ==
    /\ editorOpen(selectedPage, editingPage)
    /\ config' = setPages(config, updatePage(config.pages, selectedPage, localPage))
    /\ editingPage' = Null
    /\ selectedPage' = Null
    /\ localPage' = noEditor
    /\ last' = [op |-> "editorSave", pageId |-> selectedPage]
    /\ UNCHANGED hierarchyVars

\* "Cancel" of PageEditor.
EditorCancel ==
    /\ editorOpen(selectedPage, editingPage)
    /\ editingPage' = Null
    /\ selectedPage' = Null
    /\ localPage' = noEditor
    /\ last' = [op |-> "editorCancel"]
    /\ UNCHANGED <<config, hierarchyVars>>

MaxEditorPages == 2     \* pages added while the editor panel is in use

\* A render that throws unmounts the application: nothing can be pressed.
NextEditor ==
    \/ ~ renderThrows /\ Len(config.pages) < MaxEditorPages /\ AddTopLevelPage
    \/ ~ renderThrows /\ Len(config.pages) < MaxEditorPages /\ AddSubPage
    \/ ~ renderThrows /\ DeletePage
    \/ ~ renderThrows /\ SelectPage
    \/ ~ renderThrows /\ EditPage
    \/ ~ renderThrows /\ ViewerEdit
    \/ ~ renderThrows /\ EditorChange
    \/ ~ renderThrows /\ EditorSave
    \/ ~ renderThrows /\ EditorCancel

SpecEditor == Init /\ [][NextEditor]_vars

\* C26: page identifiers are pairwise distinct and stable in the
\* hierarchical form: after any sequence of add, select, edit, save, cancel
\* and delete actions, pressing edit on another page before saving included,
\* no two pages share an id, and saving an edit changes only the page
\* selected for editing and never its id, level, parentId or children.
PageIdsDistinctAndStable ==
    /\ [](\A i, j \in 1..Len(config.pages) :
            i # j => config.pages[i].id # config.pages[j].id)
    /\ [][ last'.op = "editorSave" =>
             /\ Len(config'.pages) = Len(config.pages)
             /\ \A i \in 1..Len(config.pages) :
                  /\ config.pages[i].id # selectedPage =>
                        config'.pages[i] = config.pages[i]
                  /\ config'.pages[i].id = config.pages[i].id
                  /\ config'.pages[i].level = config.pages[i].level
                  /\ config'.pages[i].parentId = config.pages[i].parentId
                  /\ config'.pages[i].children = config.pages[i].children ]_vars

\* C25: page-path identifiers are pairwise distinct across the page
\* collection after any sequence of add-page and delete-page actions and
\* after any import whose entries omit the page field.
PagePathsDistinct ==
    \A i, j \in 1..Len(config.pages) :
        i # j => config.pages[i].page # config.pages[j].page

(***************************************************************************)
(* Exports started from step 4 of the wizard.                              *)
(***************************************************************************)
\* One export is followed at a time: a state in which an export runs and the
\* buttons are enabled is the state in which a click starts a second one.
NextExportWizard ==
    \/ activeStep = 0 /\ ChangeLessonId
    \/ activeStep = 0 /\ ChangeLessonTitle
    \/ HandleNext
    \/ HandleBack
    \/ treeFormMounted /\ AddTopLevelPage
    \/ activeStep = 4 /\ GenerateLatestCorePhp
    \/ activeStep = 4 /\ GenerateAndDownload
    \/ FetchSettled
    \/ GenerateAsyncSettled
    \/ DownloadLessonPackageSettled

SpecExportWizard == Init /\ [][NextExportWizard]_vars

\* C28: at most one export is in flight at any time: from the moment either
\* export action starts until it finishes or fails both export buttons are
\* disabled, and when it finishes or fails, on every path, the generating
\* flag is cleared.
OneExportInFlight ==
    /\ [](gen.pc # "idle" => exportDisabled(config, isGenerating))
    /\ [][ last'.op \in {"generateAsyncSettled", "downloadLessonPackageSettled"} =>
             ~ isGenerating' /\ gen'.pc = "idle" ]_vars

(***************************************************************************)
(* Exports of pages edited in the hierarchical form.                       *)
(***************************************************************************)
\* The export is started at step 4, where the content form and its editor
\* are not rendered.
NextPrint ==
    \/ Editing /\ ChangeLessonTitle
    \/ Editing /\ Len(config.pages) < MaxEditorPages /\ AddTopLevelPage
    \/ Editing /\ EditPage
    \/ Editing /\ EditorChange
    \/ Editing /\ EditorSave
    \/ selectedPage = Null /\ GenerateLatestCorePhp
    \/ FetchSettled
    \/ GenerateAsyncSettled

SpecPrint == Init /\ [][NextPrint]_vars

\* The configuration with content, type, description and identifier of
\* every page replaced.
withoutAuthoring(cfg) ==
    [cfg EXCEPT !.pages =
        [ i \in 1..Len(cfg.pages) |->
            [cfg.pages[i] EXCEPT !.content = "", !.type = "survey",
                                 !.description = "", !.id = "" ] ] ]

\* C23: a generated print_<k>.php depends on its page only through the
\* page's title and position: the print files of a saved archive are those
\* generated for the configuration with every page's content, type,
\* description and identifier replaced, and each holds the fixed content
\* placeholder, never the authored content.
PrintFilesIgnoreAuthoring ==
    \A d \in generated :
        /\ printEntries(downloads[d].entries, Len(config.pages))
              = generateUnitPrintFiles({}, withoutAuthoring(config), currentYear, 1)
        /\ \A e \in printEntries(downloads[d].entries, Len(config.pages)) :
              /\ e.data.unitContent = "Content Placeholder"
              /\ \A i \in 1..Len(config.pages) :
                    e.data.unitContent # config.pages[i].content

\* An archive was saved for two pages of which one has authored content and
\* a description and the other has neither.
SavedAuthoredPages ==
    /\ generated # {}
    /\ Len(config.pages) = 2
    /\ \E i, j \in 1..2 :
          /\ config.pages[i].content = "<p>Authored</p>"
          /\ config.pages[i].description = "About"
          /\ config.pages[j].content # "<p>Authored</p>"
          /\ config.pages[j].description = ""
          /\ config.pages[j].id # config.pages[i].id
====
